---- MODULE Spec2Model ----
(***************************************************************************)
(* npm-accel: a cache of node_modules directories, keyed by a fingerprint  *)
(* of the dependencies and the toolchain versions.  The model follows      *)
(* src/npm_accel/__init__.py: every command execution of the execution     *)
(* context (is_file, read_file, tar, mv, rm, ...) is one step, so that     *)
(* concurrent npm-accel commands sharing one cache directory interleave    *)
(* between any two of them.                                                *)
(***************************************************************************)
EXTENDS Integers, Sequences, FiniteSets, TLC

\* ------------------------------------------------------------------ bounds
\* The clock (int(time.time())) runs from 1 to MaxTime.
MaxTime == 2
\* cache_limit is drawn from 0..MaxLimit.
MaxLimit == 3
\* Version strings of Node.js and the installer have 1..MaxVerLen characters.
MaxVerLen == 2
\* get_cache_key is called up to MaxKeyCalls times per object.
MaxKeyCalls == 2
\* The cache directory whose entries are listed by name has up to MaxEntries.
MaxEntries == 2
\* A command line has up to MaxOpts options and up to MaxArgs positional
\* arguments.
MaxOpts == 2
MaxArgs == 2
\* installer_name is assigned up to MaxSets times on an object.
MaxSets == 2
\* The number of hexadecimal digits the pattern of find_archives asks for.
DigestLength == 40

\* Concurrent npm-accel commands (one install() or clean_cache() call each).
Procs == {"p1", "p2"}
\* Cache keys: 40-digit hexadecimal digests, compared as Python compares the
\* path names they are part of (for digests of one case: as numbers).
Fingerprints == {1, 2, 3}
\* NpmAccel objects whose cache keys are compared.
Accels == {"x", "y"}
\* Strings are sequences of characters. Package names and version strings
\* of the dependencies, and the characters of a toolchain version string.
PackageNames == {<<"a">>, <<"b">>}
PackageVersions == {<<"1">>, <<"2">>}
VersionChars == {"1"}
VersionStrings == UNION {[1..n -> VersionChars] : n \in 1..MaxVerLen}
\* The files below node_modules: their names and their contents.
FileNames == {1, 2}
Data == {"u", "v"}

\* ------------------------------------------------------- files and trees
\* A path of the cache directory: no file, or a file with its bytes.
NoFile == [exists |-> FALSE, data |-> <<>>]
File(bytes) == [exists |-> TRUE, data |-> bytes]

\* A directory tree: the names of its files and their contents.
Trees == UNION {[names -> Data] : names \in SUBSET FileNames}
EmptyTree == [n \in {} |-> "u"]

SetMin(S) == CHOOSE x \in S : \A y \in S : x <= y

\* tar -cf: one member per file, then the end-of-archive marker.
EndOfArchive == <<0, "eoa">>
RECURSIVE TarMembers(_, _)
TarMembers(tree, names) ==
    IF names = {} THEN <<>>
    ELSE LET n == SetMin(names)
         IN  <<(<<n, tree[n]>>)>> \o TarMembers(tree, names \ {n})
Pack(tree) == TarMembers(tree, DOMAIN tree) \o <<EndOfArchive>>

\* An archive tar -xf accepts: it ends with the end-of-archive marker.
IsCompleteArchive(bytes) ==
    /\ Len(bytes) >= 1
    /\ bytes[Len(bytes)] = EndOfArchive
    /\ \A i \in 1..(Len(bytes) - 1) : bytes[i] # EndOfArchive

\* tar -xf into a directory: members are written over what the directory holds.
Untar(bytes, dir) ==
    LET members == {bytes[i] : i \in 1..(Len(bytes) - 1)}
        names == {m[1] : m \in members}
    IN  [n \in names \cup DOMAIN dir |->
            IF n \in names
            THEN LET last == CHOOSE i \in 1..(Len(bytes) - 1) :
                               /\ bytes[i][1] = n
                               /\ \A j \in (i + 1)..(Len(bytes) - 1) : bytes[j][1] # n
                 IN  bytes[last][2]
            ELSE dir[n]]

\* ------------------------------------------------------------- metadata
MetaKeys == <<"date-created", "last-accessed", "cache-hits">>
EmptyDict == [k \in {} |-> 0]

\* json.dumps of the metadata dictionary, as a sequence of tokens.
RECURSIVE DumpKeys(_, _)
DumpKeys(dict, i) ==
    IF i > Len(MetaKeys) THEN <<>>
    ELSE (IF MetaKeys[i] \in DOMAIN dict
          THEN <<(<<MetaKeys[i], dict[MetaKeys[i]]>>)>> ELSE <<>>)
         \o DumpKeys(dict, i + 1)
Dumps(dict) == <<(<<"{", 0>>)>> \o DumpKeys(dict, 1) \o <<(<<"}", 0>>)>>

\* Whether json.loads accepts the text (it raises ValueError otherwise).
IsJson(text) ==
    /\ Len(text) >= 2
    /\ text[1] = <<"{", 0>>
    /\ text[Len(text)] = <<"}", 0>>
    /\ \A i \in 2..(Len(text) - 1) : text[i][1] \notin {"{", "}"}
Loads(text) ==
    LET keys == {text[i][1] : i \in 2..(Len(text) - 1)}
    IN  [k \in keys |->
            LET i == CHOOSE j \in 2..(Len(text) - 1) : text[j][1] = k
            IN  text[i][2]]

\* dict.get(key, default)
Get(dict, k, default) == IF k \in DOMAIN dict THEN dict[k] ELSE default
\* dict[key] = value
Put(dict, k, v) == [x \in DOMAIN dict \cup {k} |-> IF x = k THEN v ELSE dict[x]]

\* dict.update(other)
Merge(dict, other) ==
    [x \in DOMAIN dict \cup DOMAIN other |->
        IF x \in DOMAIN other THEN other[x] ELSE dict[x]]

\* --------------------------------------------------------------- sorting
\* Python's order on the tuples (last_accessed, file_in_cache).
TupleLess(a, b) == a[1] < b[1] \/ (a[1] = b[1] /\ a[2] < b[2])
RECURSIVE InsertSorted(_, _)
InsertSorted(x, s) ==
    IF s = <<>> THEN <<x>>
    ELSE IF TupleLess(x, Head(s)) THEN <<x>> \o s
         ELSE <<Head(s)>> \o InsertSorted(x, Tail(s))
RECURSIVE sorted(_)
sorted(s) == IF s = <<>> THEN <<>> ELSE InsertSorted(Head(s), sorted(Tail(s)))

\* Python's s[:stop]: a negative stop counts from the end.
SliceTo(s, stop) ==
    LET n == Len(s)
        e == IF stop < 0 THEN (IF n + stop < 0 THEN 0 ELSE n + stop)
             ELSE (IF stop > n THEN n ELSE stop)
    IN  SubSeq(s, 1, e)

\* to_remove as it would be if the entries were sorted newest first.
RECURSIVE Reversed(_)
Reversed(s) == IF s = <<>> THEN <<>> ELSE Append(Reversed(Tail(s)), Head(s))
ToRemoveNewest(es, limit) == SliceTo(Reversed(sorted(es)), 0 - limit)

\* clean_cache: to_remove = sorted(entries)[: -self.cache_limit]
ToRemove(es, limit) == SliceTo(sorted(es), 0 - limit)

\* ------------------------------------------------------------ cache keys
\* The code point of a character.
Ord(ch) ==
    CASE ch = "1" -> 49 [] ch = "2" -> 50 [] ch = "a" -> 97 [] ch = "b" -> 98

\* Python's < on strings: the first differing character decides, a proper
\* prefix is smaller.
RECURSIVE StrLess(_, _)
StrLess(s, t) ==
    IF t = <<>> THEN FALSE
    ELSE IF s = <<>> THEN TRUE
    ELSE IF Head(s) # Head(t) THEN Ord(Head(s)) < Ord(Head(t))
    ELSE StrLess(Tail(s), Tail(t))
\* Python's < on (name, version) tuples.
ItemLess(a, b) == StrLess(a[1], b[1]) \/ (a[1] = b[1] /\ StrLess(a[2], b[2]))

RECURSIVE InsertItem(_, _)
InsertItem(x, s) ==
    IF s = <<>> THEN <<x>>
    ELSE IF ItemLess(Head(s), x) THEN <<Head(s)>> \o InsertItem(x, Tail(s))
    ELSE <<x>> \o s
\* sorted(dependencies.items())
RECURSIVE sorted_items(_)
sorted_items(s) ==
    IF s = <<>> THEN <<>> ELSE InsertItem(Head(s), sorted_items(Tail(s)))

\* repr() of a string, of a (name, version) tuple and of a list of them.
repr_str(s) == <<"'">> \o s \o <<"'">>
repr_item(item) ==
    <<"(">> \o repr_str(item[1]) \o <<",", " ">> \o repr_str(item[2]) \o <<")">>
RECURSIVE repr_items(_)
repr_items(s) ==
    IF s = <<>> THEN <<>>
    ELSE IF Len(s) = 1 THEN repr_item(Head(s))
    ELSE repr_item(Head(s)) \o <<",", " ">> \o repr_items(Tail(s))
repr(s) == <<"[">> \o repr_items(s) \o <<"]">>

\* hashlib.sha1(): update() appends to the bytes fed so far; hexdigest()
\* names the digest by the bytes it is the digest of (different bytes,
\* different digests).
sha1_update(state, bytes) == state \o bytes
hexdigest(state) == [sha1 |-> state]

\* dict: d[name] = version keeps the position of a name that is present and
\* appends a new one; items() follows the insertion order.
RECURSIVE SetItem(_, _, _)
SetItem(d, name, version) ==
    IF d = <<>> THEN <<(<<name, version>>)>>
    ELSE IF Head(d)[1] = name THEN <<(<<name, version>>)>> \o Tail(d)
    ELSE <<Head(d)>> \o SetItem(Tail(d), name, version)

\* --------------------------------------------------- extract_dependencies
\* The callers of the model: the processes that run commands, and the
\* NpmAccel objects whose properties and keys are looked at on their own.
Callers == Procs \cup Accels
\* json.loads(contents) of a package.json file: a JSON object, as the list
\* of its (name, value) members; the values used here are JSON objects that
\* map package names to versions.
RECURSIVE ObjectGet(_, _, _)
ObjectGet(object, name, default) ==
    IF object = <<>> THEN default
    ELSE IF Head(object)[1] = name THEN Head(object)[2]
    ELSE ObjectGet(Tail(object), name, default)
\* dict.update(other)
RECURSIVE dict_update(_, _)
dict_update(d, other) ==
    IF other = <<>> THEN d
    ELSE dict_update(SetItem(d, Head(other)[1], Head(other)[2]), Tail(other))
\* extract_dependencies as it would be if production were not looked at.
relevant_dependencies_all(contents, is_production) ==
    dict_update(ObjectGet(contents, "dependencies", <<>>),
                ObjectGet(contents, "devDependencies", <<>>))
\* extract_dependencies, for a package.json file that exists: dependencies,
\* updated with devDependencies unless production is set.
relevant_dependencies(contents, is_production) ==
    LET from_file == ObjectGet(contents, "dependencies", <<>>)
    IN  IF ~is_production
        THEN dict_update(from_file, ObjectGet(contents, "devDependencies", <<>>))
        ELSE from_file
\* A package.json file with the given members.
PackageFile(deps, dev_deps) ==
    File(<<(<<"dependencies", deps>>), (<<"devDependencies", dev_deps>>)>>)

\* --------------------------------------------------------- installer_name
\* KNOWN_INSTALLERS
KNOWN_INSTALLERS == <<"npm", "yarn", "pnpm", "npm-cache">>
IsKnownInstaller(value) ==
    \E i \in 1..Len(KNOWN_INSTALLERS) : KNOWN_INSTALLERS[i] = value
KnownInstallers == {KNOWN_INSTALLERS[i] : i \in 1..Len(KNOWN_INSTALLERS)}
\* The values a caller may assign to installer_name.
InstallerNames ==
    {"npm", "yarn", "pnpm", "npm-cache", "npm-fast-install", "bogus"}
\* installer_method: the method that goes with a value of installer_name.
installer_method_of(name) ==
    IF name = "npm" THEN "install_with_npm"
    ELSE IF name = "yarn" THEN "install_with_yarn"
    ELSE IF name = "pnpm" THEN "install_with_pnpm"
    ELSE IF name = "npm-cache" THEN "install_with_npm_cache"
    ELSE "ValueError"

\* --------------------------------------------------------- find_archives
\* re.IGNORECASE: letters are compared in lower case.
UpperCase == <<"A", "B", "C", "D", "E", "F", "R", "T">>
LowerCase == <<"a", "b", "c", "d", "e", "f", "r", "t">>
Lower(ch) ==
    IF \E i \in 1..Len(UpperCase) : UpperCase[i] = ch
    THEN LowerCase[CHOOSE i \in 1..Len(UpperCase) : UpperCase[i] = ch]
    ELSE ch
\* [0-9A-F] with re.IGNORECASE
IsHexDigit(ch) ==
    Lower(ch) \in {"0", "1", "2", "3", "4", "5", "6", "7", "8", "9",
                   "a", "b", "c", "d", "e", "f"}
\* pattern.match(entry) for ^[0-9A-F]{40}\.tar$ with re.IGNORECASE; $ matches
\* at the end of the string and before a newline that ends it.
pattern_match(entry) ==
    LET n == Len(entry)
        d == DigestLength
    IN  /\ n >= d + 4
        /\ \A i \in 1..d : IsHexDigit(entry[i])
        /\ entry[d + 1] = "."
        /\ Lower(entry[d + 2]) = "t"
        /\ Lower(entry[d + 3]) = "a"
        /\ Lower(entry[d + 4]) = "r"
        /\ n = d + 4 \/ (n = d + 5 /\ entry[n] = "\n")
\* get_metadata_file: re.sub(r"\.tar$", ".json", file_in_cache); the pattern
\* is matched in the case given, at the end of the name or before a newline
\* that ends it.
EndsWithTar(name, n) ==
    /\ n >= 4
    /\ n <= Len(name)
    /\ SubSeq(name, n - 3, n) = <<".", "t", "a", "r">>
get_metadata_file(file_in_cache) ==
    LET n == Len(file_in_cache)
    IN  IF EndsWithTar(file_in_cache, n)
        THEN SubSeq(file_in_cache, 1, n - 4) \o <<".", "j", "s", "o", "n">>
        ELSE IF n >= 1 /\ file_in_cache[n] = "\n"
                /\ EndsWithTar(file_in_cache, n - 1)
        THEN SubSeq(file_in_cache, 1, n - 5)
                \o <<".", "j", "s", "o", "n", "\n">>
        ELSE file_in_cache
\* os.path.join(self.cache_directory, entry)
cache_directory == <<"c">>
join(dir, entry) == dir \o <<"/">> \o entry

\* Names an entry of the cache directory may have: a stem and a suffix.
Repeat(ch, n) == [i \in 1..n |-> ch]
Stems ==
    {Repeat("a", DigestLength), Repeat("F", DigestLength),
     Repeat("g", DigestLength), Repeat("0", DigestLength - 1)}
Suffixes ==
    {<<".", "t", "a", "r">>, <<".", "T", "A", "R">>,
     <<".", "j", "s", "o", "n">>, <<".", "t", "a", "r", "-", "7">>,
     <<"x", "t", "a", "r">>, <<".", "t", "a", "r", "\n">>}
EntryNames == {stem \o suffix : stem \in Stems, suffix \in Suffixes}
EntryKinds == {"file", "directory"}

\* ------------------------------------------------------------------ state
VARIABLES
    now,             \* int(time.time())
    cache_limit,     \* NpmAccel.cache_limit
    buildable,       \* the trees the installer can build, per process
    requests,        \* the cache keys the commands' package.json files yield
    priors,          \* the trees node_modules may hold before a call
    budget,          \* calls each process may still start
    archive,         \* <fingerprint>.tar in the cache directory
    metadata,        \* <fingerprint>.json in the cache directory
    tmp_archive,     \* the temporary file of atomic_write(file_in_cache)
    tmp_metadata,    \* the temporary file of atomic_write(metadata_file)
    given,           \* the cache directory and the clock as the run found them
    failing,         \* the external command that fails during the run
    op,              \* the call each process makes
    pc,              \* where each process is in its call
    key,             \* the fingerprint in file_in_cache
    read_from_cache, \* NpmAccel.read_from_cache
    write_to_cache,  \* NpmAccel.write_to_cache
    overrides,       \* write_metadata: the **overrides of the call
    node_modules,    \* the tree in modules_directory
    cache_metadata,  \* the dictionary write_metadata works on
    scan,            \* clean_cache: archives still to visit
    entries,         \* clean_cache: (last_accessed, file_in_cache)
    to_remove,       \* clean_cache: entries still to remove
    found,           \* the call found its archive in the cache
    installer_runs,  \* installer runs in the call
    packs,           \* tar -cf runs in the call
    touches,         \* metadata files the call put in place
    unpack_failed,   \* tar -xf failed in the call
    uses,            \* stores and retrievals completed, per fingerprint
    evicted,         \* a clean_cache removed the entry during the run
    stored_tree,     \* the tree packed into the archive in place
    dependencies,    \* get_cache_key: the dependencies dictionary, per object
    nodejs_version,  \* NpmAccel.nodejs_version, per object
    installer_version, \* NpmAccel.installer_version, per object
    cache_keys,      \* the keys get_cache_key has returned, per object
    listing,         \* find_archives: the entries of the cache directory
    yielded,         \* find_archives: the path names the last call yielded
    package_file,    \* package.json in the directory of each caller
    production,      \* NpmAccel.production
    rewrites,        \* what an installer may leave in package.json
    missing_package_file, \* the call raised MissingPackageFileError
    programs,        \* the programs find_program finds
    reported,        \* what each installer prints when run with --version
    version_cached,  \* installer_version holds a cached value, per object
    installer_name,  \* NpmAccel.installer_name, per object
    default_installer, \* NpmAccel.default_installer, per object
    assigned,        \* the value last assigned to installer_name, per object
    sets,            \* assignments to installer_name so far, per object
    value_error,     \* the last assignment to installer_name raised ValueError
    method,          \* what installer_method returned last, per object
    argv,            \* sys.argv[1:]: the options and the arguments after them
    main_pc,         \* where main() is
    program_opts,    \* main: program_opts
    context_opts,    \* main: context_opts
    action,          \* main: action
    cli_directory,   \* main: directory
    context,         \* main: the execution context was created
    called,          \* main: the method called and its argument
    exit_status      \* the exit status of the command

env == <<cache_limit, buildable, requests, priors, given, failing>>
disk == <<archive, metadata, tmp_archive, tmp_metadata>>
options == <<op, key, read_from_cache, write_to_cache, overrides>>
cleaning == <<scan, entries, to_remove>>
calls == <<found, installer_runs, packs, touches, unpack_failed>>
history == <<uses, evicted, stored_tree>>
hashing == <<dependencies, nodejs_version, installer_version, cache_keys>>
directory == <<listing, yielded>>
project == <<package_file, production, rewrites, missing_package_file>>
selection == <<programs, reported, version_cached, installer_name,
               default_installer, assigned, sets, value_error, method>>
command == <<argv, main_pc, program_opts, context_opts, action, cli_directory,
             context, called, exit_status>>
objects == <<selection, command>>
vars == <<now, env, budget, disk, pc, options, node_modules, cache_metadata,
          cleaning, calls, history, hashing, directory, project, objects>>

\* self.context.find_program(name)
find_program(name) == name \in programs

\* ------------------------------------------------------------ install()
\* install() as it would be without the test of the dependencies: the cache
\* is used whether any were extracted or not.
install_unconditional(p) ==
    /\ pc[p] = "idle"
    /\ budget[p] > 0
    /\ budget' = [budget EXCEPT ![p] = @ - 1]
    /\ \E r \in BOOLEAN, w \in BOOLEAN, d \in priors :
          /\ read_from_cache' = [read_from_cache EXCEPT ![p] = r]
          /\ write_to_cache' = [write_to_cache EXCEPT ![p] = w]
          /\ node_modules' = [node_modules EXCEPT ![p] = d]
    /\ overrides' = [overrides EXCEPT ![p] = EmptyDict]
    /\ op' = [op EXCEPT ![p] = "install"]
    /\ IF ~package_file[p].exists
       THEN /\ missing_package_file' = [missing_package_file EXCEPT ![p] = TRUE]
            /\ pc' = [pc EXCEPT ![p] = "raised"]
            /\ UNCHANGED <<key, dependencies>>
       ELSE LET extracted == relevant_dependencies(package_file[p].data,
                                                   production[p])
            IN  /\ dependencies' = [dependencies EXCEPT ![p] = extracted]
                /\ UNCHANGED missing_package_file
                /\ \E k \in requests : key' = [key EXCEPT ![p] = k]
                /\ pc' = [pc EXCEPT ![p] = "check"]
    /\ UNCHANGED <<now, env, directory, objects, package_file, production,
                   rewrites, nodejs_version, installer_version, cache_keys,
                   disk, cache_metadata, cleaning, calls, history>>

\* install() as it would be if node_modules were cleared before package.json
\* is looked for.
install_clear_first(p) ==
    /\ pc[p] = "idle"
    /\ budget[p] > 0
    /\ budget' = [budget EXCEPT ![p] = @ - 1]
    /\ \E r \in BOOLEAN, w \in BOOLEAN, d \in priors :
          /\ read_from_cache' = [read_from_cache EXCEPT ![p] = r]
          /\ write_to_cache' = [write_to_cache EXCEPT ![p] = w]
          /\ node_modules' = [node_modules EXCEPT ![p] =
                                  IF package_file[p].exists THEN d ELSE EmptyTree]
    /\ overrides' = [overrides EXCEPT ![p] = EmptyDict]
    /\ op' = [op EXCEPT ![p] = "install"]
    /\ IF ~package_file[p].exists
       THEN /\ missing_package_file' = [missing_package_file EXCEPT ![p] = TRUE]
            /\ pc' = [pc EXCEPT ![p] = "raised"]
            /\ UNCHANGED <<key, dependencies>>
       ELSE LET extracted == relevant_dependencies(package_file[p].data,
                                                   production[p])
            IN  /\ dependencies' = [dependencies EXCEPT ![p] = extracted]
                /\ UNCHANGED missing_package_file
                /\ IF extracted # <<>>
                   THEN /\ \E k \in requests : key' = [key EXCEPT ![p] = k]
                        /\ pc' = [pc EXCEPT ![p] = "check"]
                   ELSE /\ pc' = [pc EXCEPT ![p] = "done"]
                        /\ UNCHANGED key
    /\ UNCHANGED <<now, env, directory, objects, package_file, production,
                   rewrites, nodejs_version, installer_version, cache_keys,
                   disk, cache_metadata, cleaning, calls, history>>

\* install(directory) starts: the options are set, the dependencies are
\* extracted from package.json (without the file MissingPackageFileError is
\* raised) and, when there are any, the cache key is computed; when there
\* are none install() returns them.
install(p) ==
    /\ pc[p] = "idle"
    /\ budget[p] > 0
    /\ budget' = [budget EXCEPT ![p] = @ - 1]
    /\ \E r \in BOOLEAN, w \in BOOLEAN, d \in priors :
          /\ read_from_cache' = [read_from_cache EXCEPT ![p] = r]
          /\ write_to_cache' = [write_to_cache EXCEPT ![p] = w]
          /\ node_modules' = [node_modules EXCEPT ![p] = d]
    /\ overrides' = [overrides EXCEPT ![p] = EmptyDict]
    /\ op' = [op EXCEPT ![p] = "install"]
    /\ IF ~package_file[p].exists
       THEN /\ missing_package_file' = [missing_package_file EXCEPT ![p] = TRUE]
            /\ pc' = [pc EXCEPT ![p] = "raised"]
            /\ UNCHANGED <<key, dependencies>>
       ELSE LET extracted == relevant_dependencies(package_file[p].data,
                                                   production[p])
            IN  /\ dependencies' = [dependencies EXCEPT ![p] = extracted]
                /\ UNCHANGED missing_package_file
                /\ IF extracted # <<>>
                   THEN /\ \E k \in requests : key' = [key EXCEPT ![p] = k]
                        /\ pc' = [pc EXCEPT ![p] = "check"]
                   ELSE /\ pc' = [pc EXCEPT ![p] = "done"]
                        /\ UNCHANGED key
    /\ UNCHANGED <<now, env, directory, objects, package_file, production,
                   rewrites, nodejs_version, installer_version, cache_keys,
                   disk, cache_metadata, cleaning, calls, history>>

\* The check as it would be if install() took the miss branch on a hit.
cache_is_file_miss(p) ==
    /\ pc[p] = "check"
    /\ pc' = [pc EXCEPT ![p] = "miss_clear"]
    /\ found' = [found EXCEPT ![p] = read_from_cache[p] /\ archive[key[p]].exists]
    /\ UNCHANGED <<now, env, directory, project, objects, hashing, budget, disk, options, node_modules, cache_metadata,
                   cleaning, installer_runs, packs, touches, unpack_failed, history>>

\* The check as it would be if read_from_cache were not looked at.
cache_is_file_any(p) ==
    /\ pc[p] = "check"
    /\ IF archive[key[p]].exists
       THEN /\ pc' = [pc EXCEPT ![p] = "hit_clear"]
            /\ found' = [found EXCEPT ![p] = TRUE]
       ELSE /\ pc' = [pc EXCEPT ![p] = "miss_clear"]
            /\ UNCHANGED found
    /\ UNCHANGED <<now, env, directory, project, objects, hashing, budget, disk, options, node_modules, cache_metadata,
                   cleaning, installer_runs, packs, touches, unpack_failed, history>>

\* cache_is_file as it would be if install() took its turn on the cache
\* directory by waiting until no other call is running.
cache_is_file_alone(p) ==
    /\ pc[p] = "check"
    /\ \A q \in Procs \ {p} : pc[q] \in {"idle", "done", "raised"}
    /\ IF read_from_cache[p] /\ archive[key[p]].exists
       THEN /\ pc' = [pc EXCEPT ![p] = "hit_clear"]
            /\ found' = [found EXCEPT ![p] = TRUE]
       ELSE /\ pc' = [pc EXCEPT ![p] = "miss_clear"]
            /\ UNCHANGED found
    /\ UNCHANGED <<now, env, directory, project, objects, hashing, budget, disk, options, node_modules, cache_metadata,
                   cleaning, installer_runs, packs, touches, unpack_failed, history>>

\* if self.read_from_cache and self.context.is_file(file_in_cache)
cache_is_file(p) ==
    /\ pc[p] = "check"
    /\ IF read_from_cache[p] /\ archive[key[p]].exists
       THEN /\ pc' = [pc EXCEPT ![p] = "hit_clear"]
            /\ found' = [found EXCEPT ![p] = TRUE]
       ELSE /\ pc' = [pc EXCEPT ![p] = "miss_clear"]
            /\ UNCHANGED found
    /\ UNCHANGED <<now, env, directory, project, objects, hashing, budget, disk, options, node_modules, cache_metadata,
                   cleaning, installer_runs, packs, touches, unpack_failed, history>>

\* clear_directory as it would be without the rm -fr: mkdir -p only.
clear_directory_keep(p) ==
    /\ pc[p] \in {"hit_clear", "miss_clear"}
    /\ pc' = [pc EXCEPT ![p] = IF pc[p] = "hit_clear" THEN "unpack" ELSE "installer"]
    /\ UNCHANGED <<now, env, directory, project, objects, hashing, budget, disk, options, node_modules, cache_metadata,
                   cleaning, calls, history>>

\* clear_directory(modules_directory): removed and created again.
clear_directory(p) ==
    /\ pc[p] \in {"hit_clear", "miss_clear"}
    /\ node_modules' = [node_modules EXCEPT ![p] = EmptyTree]
    /\ pc' = [pc EXCEPT ![p] = IF pc[p] = "hit_clear" THEN "unpack" ELSE "installer"]
    /\ UNCHANGED <<now, env, directory, project, objects, hashing, budget, disk, options, cache_metadata, cleaning,
                   calls, history>>

\* install_from_cache as it would be if install() took a failing tar -xf for
\* a miss and went on to run the installer.
install_from_cache_or_miss(p) ==
    /\ pc[p] = "unpack"
    /\ IF archive[key[p]].exists /\ IsCompleteArchive(archive[key[p]].data)
       THEN /\ node_modules' = [node_modules EXCEPT
                                  ![p] = Untar(archive[key[p]].data, @)]
            /\ pc' = [pc EXCEPT ![p] = "wm_isfile"]
            /\ UNCHANGED unpack_failed
       ELSE /\ unpack_failed' = [unpack_failed EXCEPT ![p] = TRUE]
            /\ pc' = [pc EXCEPT ![p] = "miss_clear"]
            /\ UNCHANGED node_modules
    /\ UNCHANGED <<now, env, directory, project, objects, hashing, budget, disk, options, cache_metadata, cleaning,
                   found, installer_runs, packs, touches, history>>

\* install_from_cache as it would be if the metadata were written whether
\* tar -xf succeeds or not.
install_from_cache_touch(p) ==
    /\ pc[p] = "unpack"
    /\ IF archive[key[p]].exists /\ IsCompleteArchive(archive[key[p]].data)
       THEN /\ node_modules' = [node_modules EXCEPT
                                  ![p] = Untar(archive[key[p]].data, @)]
            /\ UNCHANGED unpack_failed
       ELSE /\ unpack_failed' = [unpack_failed EXCEPT ![p] = TRUE]
            /\ UNCHANGED node_modules
    /\ pc' = [pc EXCEPT ![p] = "wm_isfile"]
    /\ UNCHANGED <<now, env, directory, project, objects, hashing, budget, disk, options, cache_metadata, cleaning,
                   found, installer_runs, packs, touches, history>>

\* install_from_cache: tar -xf file_in_cache -C modules_directory.  A failing
\* command raises ExternalCommandFailed, which install() does not catch.
install_from_cache(p) ==
    /\ pc[p] = "unpack"
    /\ IF archive[key[p]].exists /\ IsCompleteArchive(archive[key[p]].data)
       THEN /\ node_modules' = [node_modules EXCEPT
                                  ![p] = Untar(archive[key[p]].data, @)]
            /\ pc' = [pc EXCEPT ![p] = "wm_isfile"]
            /\ UNCHANGED unpack_failed
       ELSE /\ unpack_failed' = [unpack_failed EXCEPT ![p] = TRUE]
            /\ pc' = [pc EXCEPT ![p] = "raised"]
            /\ UNCHANGED node_modules
    /\ UNCHANGED <<now, env, directory, project, objects, hashing, budget, disk, options, cache_metadata, cleaning,
                   found, installer_runs, packs, touches, history>>

\* The installer run as it would be if install() went on after a failing
\* installer.
installer_method_unchecked(p) ==
    /\ pc[p] = "installer"
    /\ installer_runs' = [installer_runs EXCEPT ![p] = @ + 1]
    /\ LET contents == package_file[p]
       IN  \E left \in rewrites \cup {contents} :
              IF failing = "installer"
              THEN /\ \E t \in buildable[p] \cup {EmptyTree} :
                         node_modules' = [node_modules EXCEPT ![p] = t]
                   /\ package_file' = [package_file EXCEPT ![p] = left]
                   /\ pc' = [pc EXCEPT ![p] = IF write_to_cache[p]
                                              THEN "tar_create" ELSE "clean_list"]
              ELSE /\ \E t \in buildable[p] :
                         node_modules' = [node_modules EXCEPT ![p] = t]
                   /\ package_file' = [package_file EXCEPT ![p] = contents]
                   /\ pc' = [pc EXCEPT ![p] = IF write_to_cache[p]
                                              THEN "tar_create" ELSE "clean_list"]
    /\ UNCHANGED <<now, env, directory, objects, production, rewrites,
                   missing_package_file, hashing, budget, disk, options,
                   cache_metadata, cleaning, found, packs, touches,
                   unpack_failed, history>>

\* with self.preserve_contents(package_file): self.installer_method(directory)
\* The contents of package.json are read, the installer populates
\* node_modules and may rewrite package.json, and when it has returned the
\* contents read before are written to package.json.  A failing installer
\* raises ExternalCommandFailed, with which the with statement ends.
installer_method(p) ==
    /\ pc[p] = "installer"
    /\ installer_runs' = [installer_runs EXCEPT ![p] = @ + 1]
    /\ LET contents == package_file[p]
       IN  \E left \in rewrites \cup {contents} :
              IF failing = "installer"
              THEN /\ \E t \in buildable[p] \cup {EmptyTree} :
                         node_modules' = [node_modules EXCEPT ![p] = t]
                   /\ package_file' = [package_file EXCEPT ![p] = left]
                   /\ pc' = [pc EXCEPT ![p] = "raised"]
              ELSE /\ \E t \in buildable[p] :
                         node_modules' = [node_modules EXCEPT ![p] = t]
                   /\ package_file' = [package_file EXCEPT ![p] = contents]
                   /\ pc' = [pc EXCEPT ![p] = IF write_to_cache[p]
                                              THEN "tar_create" ELSE "clean_list"]
    /\ UNCHANGED <<now, env, directory, objects, production, rewrites,
                   missing_package_file, hashing, budget, disk, options,
                   cache_metadata, cleaning, found, packs, touches,
                   unpack_failed, history>>

\* ---------------------------------------------------------- add_to_cache
\* add_to_cache as it would be without atomic_write: tar -cf opens
\* file_in_cache itself.
add_to_cache_in_place(p) ==
    /\ pc[p] = "tar_create"
    /\ tmp_archive' = [tmp_archive EXCEPT ![p] = File(<<>>)]
    /\ archive' = [archive EXCEPT ![key[p]] = File(<<>>)]
    /\ packs' = [packs EXCEPT ![p] = @ + 1]
    /\ pc' = [pc EXCEPT ![p] = "tar_write"]
    /\ UNCHANGED <<now, env, directory, project, objects, hashing, budget, metadata, tmp_metadata, options,
                   node_modules, cache_metadata, cleaning, found, installer_runs,
                   touches, unpack_failed, history>>

\* with atomic_write(file_in_cache) as temporary_file: tar -cf temporary_file
\* The temporary file is created empty, in the cache directory, under a name
\* of the writing process's own.
add_to_cache(p) ==
    /\ pc[p] = "tar_create"
    /\ tmp_archive' = [tmp_archive EXCEPT ![p] = File(<<>>)]
    /\ packs' = [packs EXCEPT ![p] = @ + 1]
    /\ pc' = [pc EXCEPT ![p] = "tar_write"]
    /\ UNCHANGED <<now, env, directory, project, objects, hashing, budget, archive, metadata, tmp_metadata, options,
                   node_modules, cache_metadata, cleaning, found, installer_runs,
                   touches, unpack_failed, history>>

\* tar writes the archive member by member, the end-of-archive marker last.
\* When tar fails the with block is left by the exception: atomic_write
\* deletes the temporary file and add_to_cache raises.
tar_write(p) ==
    /\ pc[p] = "tar_write"
    /\ LET whole == Pack(node_modules[p])
           n == Len(tmp_archive[p].data) + 1
       IN  IF failing = "tar"
           THEN /\ tmp_archive' = [tmp_archive EXCEPT ![p] = NoFile]
                /\ pc' = [pc EXCEPT ![p] = "raised"]
           ELSE /\ tmp_archive' = [tmp_archive EXCEPT
                                     ![p] = File(Append(@.data, whole[n]))]
                /\ pc' = [pc EXCEPT ![p] = IF n = Len(whole) THEN "tar_rename"
                                           ELSE "tar_write"]
    /\ UNCHANGED <<now, env, directory, project, objects, hashing, budget, archive, metadata, tmp_metadata, options,
                   node_modules, cache_metadata, cleaning, calls, history>>

\* The rename as it would be with mv --no-clobber: an archive that is in
\* place stays.
tar_rename_no_clobber(p) ==
    /\ pc[p] = "tar_rename"
    /\ archive' = [archive EXCEPT ![key[p]] = IF @.exists THEN @ ELSE tmp_archive[p]]
    /\ tmp_archive' = [tmp_archive EXCEPT ![p] = NoFile]
    /\ stored_tree' = [stored_tree EXCEPT ![key[p]] = node_modules[p]]
    /\ pc' = [pc EXCEPT ![p] = "wm_isfile"]
    /\ UNCHANGED <<now, env, directory, project, objects, hashing, budget, metadata, tmp_metadata, options, node_modules,
                   cache_metadata, cleaning, calls, uses, evicted>>

\* atomic_write ends: the temporary file is renamed to file_in_cache.
tar_rename(p) ==
    /\ pc[p] = "tar_rename"
    /\ archive' = [archive EXCEPT ![key[p]] = tmp_archive[p]]
    /\ tmp_archive' = [tmp_archive EXCEPT ![p] = NoFile]
    /\ stored_tree' = [stored_tree EXCEPT ![key[p]] = node_modules[p]]
    /\ pc' = [pc EXCEPT ![p] = "wm_isfile"]
    /\ UNCHANGED <<now, env, directory, project, objects, hashing, budget, metadata, tmp_metadata, options, node_modules,
                   cache_metadata, cleaning, calls, uses, evicted>>

\* -------------------------------------------------------- write_metadata
\* read_metadata: if self.context.is_file(metadata_file) ... else: return {}
wm_is_file(p) ==
    /\ pc[p] = "wm_isfile"
    /\ IF metadata[key[p]].exists
       THEN /\ pc' = [pc EXCEPT ![p] = "wm_read"]
            /\ UNCHANGED cache_metadata
       ELSE /\ pc' = [pc EXCEPT ![p] = "wm_update"]
            /\ cache_metadata' = [cache_metadata EXCEPT ![p] = EmptyDict]
    /\ UNCHANGED <<now, env, directory, project, objects, hashing, budget, disk, options, node_modules, cleaning,
                   calls, history>>

\* read_metadata: json.loads(auto_decode(self.context.read_file(metadata_file)))
\* read_file raises when the file is gone, json.loads when it is no JSON.
wm_read_file(p) ==
    /\ pc[p] = "wm_read"
    /\ IF metadata[key[p]].exists /\ IsJson(metadata[key[p]].data)
       THEN /\ cache_metadata' = [cache_metadata EXCEPT
                                    ![p] = Loads(metadata[key[p]].data)]
            /\ pc' = [pc EXCEPT ![p] = "wm_update"]
       ELSE /\ pc' = [pc EXCEPT ![p] = "raised"]
            /\ UNCHANGED cache_metadata
    /\ UNCHANGED <<now, env, directory, project, objects, hashing, budget, disk, options, node_modules, cleaning,
                   calls, history>>

\* The record as it would be if date-created were set on every call.
UpdatedFresh(dict, created, accessed) ==
    LET d1 == Put(dict, "date-created", created)
        d2 == Put(d1, "last-accessed", accessed)
    IN  Put(d2, "cache-hits", Get(d2, "cache-hits", 0) + 1)

\* The record write_metadata writes: date-created is set when it is absent,
\* at the first int(time.time()); last-accessed at the second; cache-hits is
\* incremented.
Updated(dict, created, accessed) ==
    LET d1 == IF "date-created" \notin DOMAIN dict
              THEN Put(dict, "date-created", created) ELSE dict
        d2 == Put(d1, "last-accessed", accessed)
    IN  Put(d2, "cache-hits", Get(d2, "cache-hits", 0) + 1)

\* write_metadata merges the overrides, updates the dictionary and opens the
\* temporary file of atomic_write(metadata_file); the clock may tick between
\* the two readings.
wm_update(p) ==
    /\ pc[p] = "wm_update"
    /\ \E t \in {now, now + 1} :
          /\ t <= MaxTime
          /\ now' = t
          /\ cache_metadata' = [cache_metadata EXCEPT
                                  ![p] = Updated(Merge(@, overrides[p]), now, t)]
    /\ tmp_metadata' = [tmp_metadata EXCEPT ![p] = File(<<>>)]
    /\ pc' = [pc EXCEPT ![p] = "wm_write"]
    /\ UNCHANGED <<env, directory, project, objects, hashing, budget, archive, metadata, tmp_archive, options,
                   node_modules, cleaning, calls, history>>

\* write_file as it would be if atomic_write left the temporary file behind
\* when the with block is left by an exception.
wm_write_file_leave(p) ==
    /\ pc[p] = "wm_write"
    /\ IF failing = "write_file"
       THEN /\ UNCHANGED tmp_metadata
            /\ pc' = [pc EXCEPT ![p] = "raised"]
       ELSE /\ tmp_metadata' = [tmp_metadata EXCEPT
                                  ![p] = File(Dumps(cache_metadata[p]))]
            /\ pc' = [pc EXCEPT ![p] = "wm_rename"]
    /\ UNCHANGED <<now, env, directory, project, objects, hashing, budget, archive, metadata, tmp_archive, options,
                   node_modules, cache_metadata, cleaning, calls, history>>

\* self.context.write_file(temporary_file, json.dumps(cache_metadata))
\* When write_file fails atomic_write deletes the temporary file and
\* write_metadata raises.
wm_write_file(p) ==
    /\ pc[p] = "wm_write"
    /\ IF failing = "write_file"
       THEN /\ tmp_metadata' = [tmp_metadata EXCEPT ![p] = NoFile]
            /\ pc' = [pc EXCEPT ![p] = "raised"]
       ELSE /\ tmp_metadata' = [tmp_metadata EXCEPT
                                  ![p] = File(Dumps(cache_metadata[p]))]
            /\ pc' = [pc EXCEPT ![p] = "wm_rename"]
    /\ UNCHANGED <<now, env, directory, project, objects, hashing, budget, archive, metadata, tmp_archive, options,
                   node_modules, cache_metadata, cleaning, calls, history>>

\* wm_rename as it would be if install() returned after the store or the
\* retrieval without calling clean_cache().
wm_rename_return(p) ==
    /\ pc[p] = "wm_rename"
    /\ metadata' = [metadata EXCEPT ![key[p]] = tmp_metadata[p]]
    /\ tmp_metadata' = [tmp_metadata EXCEPT ![p] = NoFile]
    /\ touches' = [touches EXCEPT ![p] = @ + 1]
    /\ uses' = [uses EXCEPT ![key[p]] = @ + 1]
    /\ pc' = [pc EXCEPT ![p] = "done"]
    /\ UNCHANGED <<now, env, directory, project, objects, hashing, budget, archive, tmp_archive, options, node_modules,
                   cache_metadata, cleaning, found, installer_runs, packs,
                   unpack_failed, evicted, stored_tree>>

\* atomic_write ends: the temporary file is renamed to metadata_file.  The
\* store or the retrieval is complete, and install() goes on to clean_cache();
\* a method called on its own returns.
wm_rename(p) ==
    /\ pc[p] = "wm_rename"
    /\ metadata' = [metadata EXCEPT ![key[p]] = tmp_metadata[p]]
    /\ tmp_metadata' = [tmp_metadata EXCEPT ![p] = NoFile]
    /\ touches' = [touches EXCEPT ![p] = @ + 1]
    /\ uses' = [uses EXCEPT ![key[p]] = @ + 1]
    /\ pc' = [pc EXCEPT ![p] = IF op[p] = "install" THEN "clean_list" ELSE "done"]
    /\ UNCHANGED <<now, env, directory, project, objects, hashing, budget, archive, tmp_archive, options, node_modules,
                   cache_metadata, cleaning, found, installer_runs, packs,
                   unpack_failed, evicted, stored_tree>>

\* ----------------------------------------------------------- clean_cache
\* find_archives(): the entries of the cache directory that match the
\* pattern, listed as clean_cache starts to loop over them.
find_archives == {f \in Fingerprints : archive[f].exists}
RECURSIVE Ascending(_)
Ascending(S) ==
    IF S = {} THEN <<>>
    ELSE LET m == SetMin(S) IN <<m>> \o Ascending(S \ {m})

\* clean_cache, once the loop over the archives has ended: the entries to
\* remove are chosen; with none to remove clean_cache returns.
AfterEntry(p, es) ==
    LET rest == Tail(scan[p])
        stale == ToRemove(es, cache_limit)
    IN  /\ scan' = [scan EXCEPT ![p] = rest]
        /\ entries' = [entries EXCEPT ![p] = es]
        /\ to_remove' = [to_remove EXCEPT ![p] = IF rest = <<>> THEN stale ELSE @]
        /\ pc' = [pc EXCEPT ![p] = IF rest # <<>> THEN "clean_isfile"
                                   ELSE IF stale = <<>> THEN "done"
                                   ELSE "clean_rm"]

\* clean_cache() is called on its own.
clean_cache(p) ==
    /\ pc[p] = "idle"
    /\ budget[p] > 0
    /\ budget' = [budget EXCEPT ![p] = @ - 1]
    /\ op' = [op EXCEPT ![p] = "clean_cache"]
    /\ pc' = [pc EXCEPT ![p] = "clean_list"]
    /\ UNCHANGED <<now, env, directory, project, objects, hashing, disk, key, read_from_cache, write_to_cache,
                   overrides, node_modules, cache_metadata, cleaning, calls,
                   history>>

\* for file_in_cache in self.find_archives()
clean_list(p) ==
    /\ pc[p] = "clean_list"
    /\ LET found_archives == Ascending(find_archives)
       IN  /\ scan' = [scan EXCEPT ![p] = found_archives]
           /\ entries' = [entries EXCEPT ![p] = <<>>]
           /\ to_remove' = [to_remove EXCEPT ![p] = <<>>]
           /\ pc' = [pc EXCEPT ![p] = IF found_archives = <<>> THEN "done"
                                      ELSE "clean_isfile"]
    /\ UNCHANGED <<now, env, directory, project, objects, hashing, budget, disk, options, node_modules, cache_metadata,
                   calls, history>>

\* read_metadata as it would be without the is_file test: read_file raises
\* when there is no metadata file.
clean_is_file_strict(p) ==
    /\ pc[p] = "clean_isfile"
    /\ pc' = [pc EXCEPT ![p] = IF metadata[Head(scan[p])].exists
                               THEN "clean_read" ELSE "raised"]
    /\ UNCHANGED <<now, env, directory, project, objects, hashing, budget, disk, options, node_modules, cache_metadata,
                   cleaning, calls, history>>

\* read_metadata(file_in_cache): is_file(metadata_file); without the file the
\* entry counts as last accessed at 0.
clean_is_file(p) ==
    /\ pc[p] = "clean_isfile"
    /\ IF metadata[Head(scan[p])].exists
       THEN /\ pc' = [pc EXCEPT ![p] = "clean_read"]
            /\ UNCHANGED cleaning
       ELSE AfterEntry(p, Append(entries[p], <<0, Head(scan[p])>>))
    /\ UNCHANGED <<now, env, directory, project, objects, hashing, budget, disk, options, node_modules, cache_metadata,
                   calls, history>>

\* read_metadata(file_in_cache): read_file and json.loads, which raise.
clean_read_file(p) ==
    /\ pc[p] = "clean_read"
    /\ LET f == Head(scan[p])
       IN  IF metadata[f].exists /\ IsJson(metadata[f].data)
           THEN AfterEntry(p, Append(entries[p],
                    <<Get(Loads(metadata[f].data), "last-accessed", 0), f>>))
           ELSE /\ pc' = [pc EXCEPT ![p] = "raised"]
                /\ UNCHANGED cleaning
    /\ UNCHANGED <<now, env, directory, project, objects, hashing, budget, disk, options, node_modules, cache_metadata,
                   calls, history>>

\* The removal as it would be if a failing rm were passed over and the loop
\* went on with the next entry.
clean_remove_best_effort(p) ==
    /\ pc[p] = "clean_rm"
    /\ LET f == Head(to_remove[p])[2]
       IN  IF failing = "rm"
           THEN UNCHANGED <<archive, metadata, evicted>>
           ELSE /\ archive' = [archive EXCEPT ![f] = NoFile]
                /\ metadata' = [metadata EXCEPT ![f] = NoFile]
                /\ evicted' = [evicted EXCEPT ![f] = TRUE]
    /\ to_remove' = [to_remove EXCEPT ![p] = Tail(@)]
    /\ pc' = [pc EXCEPT ![p] = IF Tail(to_remove[p]) = <<>> THEN "done"
                               ELSE "clean_rm"]
    /\ UNCHANGED <<now, env, directory, project, objects, hashing, budget, tmp_archive, tmp_metadata, options,
                   node_modules, cache_metadata, scan, entries, calls, uses,
                   stored_tree>>

\* The removal as it would be with rm in place of rm -f: a file that is
\* already gone makes the command fail.
clean_remove_strict(p) ==
    /\ pc[p] = "clean_rm"
    /\ LET f == Head(to_remove[p])[2]
       IN  IF failing = "rm" \/ ~archive[f].exists \/ ~metadata[f].exists
           THEN /\ pc' = [pc EXCEPT ![p] = "raised"]
                /\ UNCHANGED <<archive, metadata, evicted, to_remove>>
           ELSE /\ archive' = [archive EXCEPT ![f] = NoFile]
                /\ metadata' = [metadata EXCEPT ![f] = NoFile]
                /\ evicted' = [evicted EXCEPT ![f] = TRUE]
                /\ to_remove' = [to_remove EXCEPT ![p] = Tail(@)]
                /\ pc' = [pc EXCEPT ![p] = IF Tail(to_remove[p]) = <<>>
                                           THEN "done" ELSE "clean_rm"]
    /\ UNCHANGED <<now, env, directory, project, objects, hashing, budget, tmp_archive, tmp_metadata, options,
                   node_modules, cache_metadata, scan, entries, calls, uses,
                   stored_tree>>

\* The removal as it would be if only file_in_cache were given to rm.
clean_remove_archive_only(p) ==
    /\ pc[p] = "clean_rm"
    /\ LET f == Head(to_remove[p])[2]
       IN  IF failing = "rm"
           THEN /\ pc' = [pc EXCEPT ![p] = "raised"]
                /\ UNCHANGED <<archive, metadata, evicted, to_remove>>
           ELSE /\ archive' = [archive EXCEPT ![f] = NoFile]
                /\ UNCHANGED metadata
                /\ evicted' = [evicted EXCEPT ![f] = TRUE]
                /\ to_remove' = [to_remove EXCEPT ![p] = Tail(@)]
                /\ pc' = [pc EXCEPT ![p] = IF Tail(to_remove[p]) = <<>>
                                           THEN "done" ELSE "clean_rm"]
    /\ UNCHANGED <<now, env, directory, project, objects, hashing, budget, tmp_archive, tmp_metadata, options,
                   node_modules, cache_metadata, scan, entries, calls, uses,
                   stored_tree>>

\* self.context.execute("rm", "-f", file_in_cache, metadata_file): files that
\* are gone are passed over; a failing rm raises ExternalCommandFailed, which
\* clean_cache does not catch.
clean_remove(p) ==
    /\ pc[p] = "clean_rm"
    /\ LET f == Head(to_remove[p])[2]
       IN  IF failing = "rm"
           THEN /\ pc' = [pc EXCEPT ![p] = "raised"]
                /\ UNCHANGED <<archive, metadata, evicted, to_remove>>
           ELSE /\ archive' = [archive EXCEPT ![f] = NoFile]
                /\ metadata' = [metadata EXCEPT ![f] = NoFile]
                /\ evicted' = [evicted EXCEPT ![f] = TRUE]
                /\ to_remove' = [to_remove EXCEPT ![p] = Tail(@)]
                /\ pc' = [pc EXCEPT ![p] = IF Tail(to_remove[p]) = <<>>
                                           THEN "done" ELSE "clean_rm"]
    /\ UNCHANGED <<now, env, directory, project, objects, hashing, budget, tmp_archive, tmp_metadata, options,
                   node_modules, cache_metadata, scan, entries, calls, uses,
                   stored_tree>>

\* --------------------------------------------------------- get_cache_key
\* extract_dependencies: the dictionary is filled from package.json, one
\* name at a time, before the object computes a key from it.
extract_dependencies(a) ==
    /\ cache_keys[a] = <<>>
    /\ \E name \in PackageNames, version \in PackageVersions :
          /\ SetItem(dependencies[a], name, version) # dependencies[a]
          /\ dependencies' =
                [dependencies EXCEPT ![a] = SetItem(@, name, version)]
    /\ UNCHANGED <<now, env, directory, project, objects, budget, disk, pc, options, node_modules,
                   cache_metadata, cleaning, calls, history,
                   nodejs_version, installer_version, cache_keys>>

\* default_installer: computed when first read, and kept.
DefaultInstaller(a) ==
    IF default_installer[a] # "unset" THEN default_installer[a]
    ELSE IF find_program("yarn") THEN "yarn" ELSE "npm"
\* installer_name as a read of the property gives it: the default installer
\* until a value is set.
InstallerName(a) ==
    IF installer_name[a] # "unset" THEN installer_name[a]
    ELSE DefaultInstaller(a)
\* self.context.capture(self.installer_name, "--version") raises: the
\* version is not cached and the program of the installer is not found.
CaptureFails(a) == ~version_cached[a] /\ ~find_program(InstallerName(a))
\* installer_version as a read of the property gives it: the cached value,
\* or else what the installer that is selected prints.
InstallerVersion(a) ==
    IF version_cached[a] THEN installer_version[a]
    ELSE reported[InstallerName(a)]

\* get_cache_key as it would be without sorted().
get_cache_key_unsorted(a) ==
    /\ dependencies[a] # <<>>
    /\ Len(cache_keys[a]) < MaxKeyCalls
    /\ installer_name' = [installer_name EXCEPT ![a] = InstallerName(a)]
    /\ default_installer' =
          [default_installer EXCEPT
              ![a] = IF installer_name[a] = "unset" THEN DefaultInstaller(a) ELSE @]
    /\ IF CaptureFails(a)
       THEN UNCHANGED <<installer_version, version_cached, cache_keys>>
       ELSE LET version == InstallerVersion(a)
                state1 == sha1_update(<<>>, repr(dependencies[a]))
                state2 == sha1_update(state1, nodejs_version[a])
                state3 == sha1_update(state2, version)
            IN  /\ installer_version' = [installer_version EXCEPT ![a] = version]
                /\ version_cached' = [version_cached EXCEPT ![a] = TRUE]
                /\ cache_keys' =
                      [cache_keys EXCEPT ![a] = Append(@, hexdigest(state3))]
    /\ UNCHANGED <<now, env, directory, project, command, budget, disk, pc,
                   options, node_modules, cache_metadata, cleaning, calls,
                   history, dependencies, nodejs_version, programs, reported,
                   assigned, sets, value_error, method>>

\* get_cache_key(dependencies): installer_name and installer_version are
\* read (the call raises when the installer cannot be run), then three
\* updates of one SHA1 state give the key.
get_cache_key(a) ==
    /\ dependencies[a] # <<>>
    /\ Len(cache_keys[a]) < MaxKeyCalls
    /\ installer_name' = [installer_name EXCEPT ![a] = InstallerName(a)]
    /\ default_installer' =
          [default_installer EXCEPT
              ![a] = IF installer_name[a] = "unset" THEN DefaultInstaller(a) ELSE @]
    /\ IF CaptureFails(a)
       THEN UNCHANGED <<installer_version, version_cached, cache_keys>>
       ELSE LET version == InstallerVersion(a)
                state1 == sha1_update(<<>>, repr(sorted_items(dependencies[a])))
                state2 == sha1_update(state1, nodejs_version[a])
                state3 == sha1_update(state2, version)
            IN  /\ installer_version' = [installer_version EXCEPT ![a] = version]
                /\ version_cached' = [version_cached EXCEPT ![a] = TRUE]
                /\ cache_keys' =
                      [cache_keys EXCEPT ![a] = Append(@, hexdigest(state3))]
    /\ UNCHANGED <<now, env, directory, project, command, budget, disk, pc,
                   options, node_modules, cache_metadata, cleaning, calls,
                   history, dependencies, nodejs_version, programs, reported,
                   assigned, sets, value_error, method>>

NextKey ==
    \E a \in Accels : extract_dependencies(a) \/ get_cache_key(a)

\* extract_dependencies(package_file) is called on an object, for a
\* package.json file that exists.
extract_from_file(a) ==
    /\ cache_keys[a] = <<>>
    /\ dependencies[a] = <<>>
    /\ package_file[a].exists
    /\ relevant_dependencies(package_file[a].data, production[a]) # <<>>
    /\ dependencies' =
          [dependencies EXCEPT
              ![a] = relevant_dependencies(package_file[a].data, production[a])]
    /\ UNCHANGED <<now, env, directory, project, objects, budget, disk, pc,
                   options, node_modules, cache_metadata, cleaning, calls,
                   history, nodejs_version, installer_version, cache_keys>>

NextMode ==
    \E a \in Accels : extract_from_file(a) \/ get_cache_key(a)

\* --------------------------------------------------------- installer_name
\* clear_property(self, "installer_version"): the cached value is dropped,
\* the next read runs the installer that is then selected.
ClearInstallerVersion(a) ==
    /\ installer_version' = [installer_version EXCEPT ![a] = <<>>]
    /\ version_cached' = [version_cached EXCEPT ![a] = FALSE]

\* The setter as it would be if the value were stored before it is validated.
set_installer_name_late(a) ==
    /\ sets[a] < MaxSets
    /\ sets' = [sets EXCEPT ![a] = @ + 1]
    /\ \E value \in InstallerNames :
          /\ assigned' = [assigned EXCEPT ![a] = value]
          /\ installer_name' = [installer_name EXCEPT ![a] = value]
          /\ value_error' = [value_error EXCEPT ![a] = ~IsKnownInstaller(value)]
          /\ UNCHANGED <<default_installer, installer_version, version_cached>>
    /\ UNCHANGED <<now, env, directory, project, command, budget, disk, pc,
                   options, node_modules, cache_metadata, cleaning, calls,
                   history, programs, reported, method, dependencies,
                   nodejs_version, cache_keys>>

\* The setter as it would be without the fall back: a supported name is
\* stored whether its program is found or not.
set_installer_name_as_given(a) ==
    /\ sets[a] < MaxSets
    /\ sets' = [sets EXCEPT ![a] = @ + 1]
    /\ \E value \in InstallerNames :
          /\ assigned' = [assigned EXCEPT ![a] = value]
          /\ IF ~IsKnownInstaller(value)
             THEN /\ value_error' = [value_error EXCEPT ![a] = TRUE]
                  /\ UNCHANGED <<installer_name, default_installer,
                                 installer_version, version_cached>>
             ELSE /\ value_error' = [value_error EXCEPT ![a] = FALSE]
                  /\ installer_name' = [installer_name EXCEPT ![a] = value]
                  /\ UNCHANGED default_installer
                  /\ ClearInstallerVersion(a)
    /\ UNCHANGED <<now, env, directory, project, command, budget, disk, pc,
                   options, node_modules, cache_metadata, cleaning, calls,
                   history, programs, reported, method, dependencies,
                   nodejs_version, cache_keys>>

\* The setter as it would be without clear_property: installer_version keeps
\* its cached value.
set_installer_name_keep_version(a) ==
    /\ sets[a] < MaxSets
    /\ sets' = [sets EXCEPT ![a] = @ + 1]
    /\ \E value \in InstallerNames :
          /\ assigned' = [assigned EXCEPT ![a] = value]
          /\ IF ~IsKnownInstaller(value)
             THEN /\ value_error' = [value_error EXCEPT ![a] = TRUE]
                  /\ UNCHANGED <<installer_name, default_installer,
                                 installer_version, version_cached>>
             ELSE /\ value_error' = [value_error EXCEPT ![a] = FALSE]
                  /\ IF find_program(value)
                     THEN /\ installer_name' =
                                [installer_name EXCEPT ![a] = value]
                          /\ UNCHANGED default_installer
                          /\ UNCHANGED <<installer_version, version_cached>>
                     ELSE /\ installer_name' =
                                [installer_name EXCEPT ![a] = DefaultInstaller(a)]
                          /\ default_installer' =
                                [default_installer EXCEPT ![a] = DefaultInstaller(a)]
                          /\ UNCHANGED <<installer_version, version_cached>>
    /\ UNCHANGED <<now, env, directory, project, command, budget, disk, pc,
                   options, node_modules, cache_metadata, cleaning, calls,
                   history, programs, reported, method, dependencies,
                   nodejs_version, cache_keys>>

\* accelerator.installer_name = value: a value that is not in
\* KNOWN_INSTALLERS raises ValueError; the name of a program that is not
\* found is replaced by default_installer; installer_version is cleared.
set_installer_name(a) ==
    /\ sets[a] < MaxSets
    /\ sets' = [sets EXCEPT ![a] = @ + 1]
    /\ \E value \in InstallerNames :
          /\ assigned' = [assigned EXCEPT ![a] = value]
          /\ IF ~IsKnownInstaller(value)
             THEN /\ value_error' = [value_error EXCEPT ![a] = TRUE]
                  /\ UNCHANGED <<installer_name, default_installer,
                                 installer_version, version_cached>>
             ELSE /\ value_error' = [value_error EXCEPT ![a] = FALSE]
                  /\ IF find_program(value)
                     THEN /\ installer_name' =
                                [installer_name EXCEPT ![a] = value]
                          /\ UNCHANGED default_installer
                          /\ ClearInstallerVersion(a)
                     ELSE /\ installer_name' =
                                [installer_name EXCEPT ![a] = DefaultInstaller(a)]
                          /\ default_installer' =
                                [default_installer EXCEPT ![a] = DefaultInstaller(a)]
                          /\ ClearInstallerVersion(a)
    /\ UNCHANGED <<now, env, directory, project, command, budget, disk, pc,
                   options, node_modules, cache_metadata, cleaning, calls,
                   history, programs, reported, method, dependencies,
                   nodejs_version, cache_keys>>

\* accelerator.installer_method is read: installer_name is read (which
\* computes and keeps the default when no value is set) and the method that
\* goes with it is returned.
get_installer_method(a) ==
    /\ installer_name' = [installer_name EXCEPT ![a] = InstallerName(a)]
    /\ default_installer' =
          [default_installer EXCEPT
              ![a] = IF installer_name[a] = "unset" THEN DefaultInstaller(a) ELSE @]
    /\ method' = [method EXCEPT ![a] = installer_method_of(InstallerName(a))]
    /\ <<installer_name, method>>' # <<installer_name, method>>
    /\ UNCHANGED <<now, env, directory, project, command, budget, disk, pc,
                   options, node_modules, cache_metadata, cleaning, calls,
                   history, hashing, programs, reported, version_cached,
                   assigned, sets, value_error>>

NextInstaller ==
    \E a \in Accels : set_installer_name(a) \/ get_installer_method(a)

\* The installer of an object is set and its cache key is computed, in any
\* order.
NextVersion ==
    \E a \in Accels : set_installer_name(a) \/ get_cache_key(a)

\* ----------------------------------------------------------------- main()
\* The options getopt knows, of those a command line of the model may hold.
IsKnownOption(option) ==
    option \in {"-p", "-u", "-n", "-b", "-r", "-h", "--version"}
\* for option, value in options: the options are handled in their order;
\* --version and --help make main() return at once.
RECURSIVE HandleOptions(_, _)
HandleOptions(remaining, parsed) ==
    IF remaining = <<>> THEN parsed
    ELSE LET option == Head(remaining)[1]
             value == Head(remaining)[2]
         IN  IF option = "-p"
             THEN HandleOptions(Tail(remaining),
                    [parsed EXCEPT !.program_opts = SetItem(@, "production", TRUE)])
             ELSE IF option = "-u"
             THEN HandleOptions(Tail(remaining),
                    [parsed EXCEPT !.program_opts =
                        SetItem(SetItem(@, "read_from_cache", FALSE),
                                "write_to_cache", TRUE)])
             ELSE IF option = "-n"
             THEN HandleOptions(Tail(remaining),
                    [parsed EXCEPT !.program_opts = SetItem(@, "write_to_cache", FALSE)])
             ELSE IF option = "-b"
             THEN HandleOptions(Tail(remaining), [parsed EXCEPT !.action = "benchmark"])
             ELSE IF option = "-r"
             THEN HandleOptions(Tail(remaining),
                    [parsed EXCEPT !.context_opts = SetItem(@, "ssh_alias", value)])
             ELSE [parsed EXCEPT !.returned = TRUE]
\* context_opts.get("ssh_alias")
ssh_alias(opts) == ObjectGet(opts, "ssh_alias", "")
\* The current working directory of the command.
getcwd == "cwd"

\* main() as it would be if the arguments after the first were passed over.
main_first_argument ==
    /\ main_pc = "start"
    /\ IF \E i \in 1..Len(argv.options) : ~IsKnownOption(argv.options[i][1])
       THEN /\ main_pc' = "exited"
            /\ exit_status' = 1
            /\ UNCHANGED <<program_opts, context_opts, action, cli_directory>>
       ELSE LET parsed == HandleOptions(argv.options,
                            [program_opts |-> <<>>, context_opts |-> <<>>,
                             action |-> "install", returned |-> FALSE])
                dir == IF argv.arguments # <<>> THEN Head(argv.arguments)
                       ELSE ""
            IN  /\ program_opts' = parsed.program_opts
                /\ context_opts' = parsed.context_opts
                /\ action' = parsed.action
                /\ IF parsed.returned
                   THEN /\ main_pc' = "returned"
                        /\ exit_status' = 0
                        /\ UNCHANGED cli_directory
                   ELSE IF dir = "" /\ ssh_alias(parsed.context_opts) # ""
                   THEN /\ main_pc' = "exited"
                        /\ exit_status' = 1
                        /\ UNCHANGED cli_directory
                   ELSE /\ main_pc' = "parsed"
                        /\ cli_directory' = IF dir = "" THEN getcwd ELSE dir
                        /\ UNCHANGED exit_status
    /\ UNCHANGED <<now, env, directory, project, selection, budget, disk, pc,
                   options, node_modules, cache_metadata, cleaning, calls,
                   history, hashing, argv, context, called>>

\* main(), up to the action: getopt parses the command line (an option it
\* does not know raises GetoptError), the options are handled and the
\* directory is taken from the arguments; an exception ends the command
\* with sys.exit(1).
main_parse ==
    /\ main_pc = "start"
    /\ IF \E i \in 1..Len(argv.options) : ~IsKnownOption(argv.options[i][1])
       THEN /\ main_pc' = "exited"
            /\ exit_status' = 1
            /\ UNCHANGED <<program_opts, context_opts, action, cli_directory>>
       ELSE LET parsed == HandleOptions(argv.options,
                            [program_opts |-> <<>>, context_opts |-> <<>>,
                             action |-> "install", returned |-> FALSE])
                dir == IF argv.arguments # <<>> THEN Head(argv.arguments)
                       ELSE ""
            IN  /\ program_opts' = parsed.program_opts
                /\ context_opts' = parsed.context_opts
                /\ action' = parsed.action
                /\ IF parsed.returned
                   THEN /\ main_pc' = "returned"
                        /\ exit_status' = 0
                        /\ UNCHANGED cli_directory
                   ELSE IF Len(argv.arguments) > 1
                   THEN /\ main_pc' = "exited"
                        /\ exit_status' = 1
                        /\ UNCHANGED cli_directory
                   ELSE IF dir = "" /\ ssh_alias(parsed.context_opts) # ""
                   THEN /\ main_pc' = "exited"
                        /\ exit_status' = 1
                        /\ UNCHANGED cli_directory
                   ELSE /\ main_pc' = "parsed"
                        /\ cli_directory' = IF dir = "" THEN getcwd ELSE dir
                        /\ UNCHANGED exit_status
    /\ UNCHANGED <<now, env, directory, project, selection, budget, disk, pc,
                   options, node_modules, cache_metadata, cleaning, calls,
                   history, hashing, argv, context, called>>

\* main(), the action: the execution context and the NpmAccel object are
\* created and the method is called with the directory; an exception ends
\* the command with sys.exit(1).
main_perform ==
    /\ main_pc = "parsed"
    /\ context' = TRUE
    /\ called' = <<action, cli_directory>>
    /\ \E status \in {0, 1} :
          /\ exit_status' = status
          /\ main_pc' = IF status = 0 THEN "returned" ELSE "exited"
    /\ UNCHANGED <<now, env, directory, project, selection, budget, disk, pc,
                   options, node_modules, cache_metadata, cleaning, calls,
                   history, hashing, argv, program_opts, context_opts, action,
                   cli_directory>>

NextMain == main_parse \/ main_perform

\* --------------------------------------------- methods called on their own
\* Overrides a caller may give to write_metadata.
Overrides == UNION {[ks -> {0}] : ks \in SUBSET {"date-created", "last-accessed", "cache-hits"}}

\* write_metadata(file_in_cache, **overrides) is called on its own.
write_metadata(p) ==
    /\ pc[p] = "idle"
    /\ budget[p] > 0
    /\ budget' = [budget EXCEPT ![p] = @ - 1]
    /\ \E k \in requests, o \in Overrides :
          /\ key' = [key EXCEPT ![p] = k]
          /\ overrides' = [overrides EXCEPT ![p] = o]
    /\ op' = [op EXCEPT ![p] = "write_metadata"]
    /\ pc' = [pc EXCEPT ![p] = "wm_isfile"]
    /\ UNCHANGED <<now, env, directory, project, objects, hashing, disk, read_from_cache, write_to_cache,
                   node_modules, cache_metadata, cleaning, calls, history>>

\* install_from_cache(file_in_cache, modules_directory) is called on its own,
\* whether the archive exists or not.
install_from_cache_call(p) ==
    /\ pc[p] = "idle"
    /\ budget[p] > 0
    /\ budget' = [budget EXCEPT ![p] = @ - 1]
    /\ \E k \in requests, d \in priors :
          /\ key' = [key EXCEPT ![p] = k]
          /\ node_modules' = [node_modules EXCEPT ![p] = d]
    /\ op' = [op EXCEPT ![p] = "install_from_cache"]
    /\ pc' = [pc EXCEPT ![p] = "hit_clear"]
    /\ UNCHANGED <<now, env, directory, project, objects, hashing, disk, read_from_cache, write_to_cache,
                   overrides, cache_metadata, cleaning, calls, history>>

\* ------------------------------------------------------ listing by name
\* A file or a directory is created in the cache directory.
create_entry ==
    /\ Cardinality(listing) < MaxEntries
    /\ \E name \in EntryNames, kind \in EntryKinds :
          /\ \A e \in listing : e.name # name
          /\ listing' = listing \cup {[name |-> name, kind |-> kind]}
    /\ UNCHANGED <<now, env, project, objects, budget, disk, pc, options,
                   node_modules, cache_metadata, cleaning, calls, history,
                   hashing, yielded>>

\* find_archives(): the entries context.list_entries(cache_directory) returns
\* are matched against the pattern, and the matching ones are yielded.
list_entries ==
    /\ yielded' = {join(cache_directory, e.name) :
                      e \in {x \in listing : pattern_match(x.name)}}
    /\ yielded' # yielded
    /\ UNCHANGED <<now, env, project, objects, budget, disk, pc, options,
                   node_modules, cache_metadata, cleaning, calls, history,
                   hashing, listing>>

NextList == create_entry \/ list_entries

\* ------------------------------------------------------------- the rest
\* The call has returned or raised; the command ends.
finish(p) ==
    /\ pc[p] \in {"done", "raised"}
    /\ pc' = [pc EXCEPT ![p] = "idle"]
    /\ op' = [op EXCEPT ![p] = "none"]
    /\ key' = [key EXCEPT ![p] = SetMin(Fingerprints)]
    /\ read_from_cache' = [read_from_cache EXCEPT ![p] = FALSE]
    /\ write_to_cache' = [write_to_cache EXCEPT ![p] = FALSE]
    /\ overrides' = [overrides EXCEPT ![p] = EmptyDict]
    /\ node_modules' = [node_modules EXCEPT ![p] = EmptyTree]
    /\ cache_metadata' = [cache_metadata EXCEPT ![p] = EmptyDict]
    /\ scan' = [scan EXCEPT ![p] = <<>>]
    /\ entries' = [entries EXCEPT ![p] = <<>>]
    /\ to_remove' = [to_remove EXCEPT ![p] = <<>>]
    /\ found' = [found EXCEPT ![p] = FALSE]
    /\ installer_runs' = [installer_runs EXCEPT ![p] = 0]
    /\ packs' = [packs EXCEPT ![p] = 0]
    /\ touches' = [touches EXCEPT ![p] = 0]
    /\ unpack_failed' = [unpack_failed EXCEPT ![p] = FALSE]
    /\ missing_package_file' = [missing_package_file EXCEPT ![p] = FALSE]
    /\ dependencies' = [dependencies EXCEPT ![p] = <<>>]
    /\ UNCHANGED <<now, env, directory, objects, package_file, production,
                   rewrites, nodejs_version, installer_version, cache_keys,
                   budget, disk, history>>

\* A second passes.
tick ==
    /\ now < MaxTime
    /\ now' = now + 1
    /\ UNCHANGED <<env, directory, project, objects, hashing, budget, disk, pc, options, node_modules, cache_metadata,
                   cleaning, calls, history>>

Next ==
    \/ \E p \in Procs :
          \/ install(p) \/ cache_is_file(p) \/ clear_directory(p)
          \/ install_from_cache(p) \/ installer_method(p)
          \/ add_to_cache(p) \/ tar_write(p) \/ tar_rename(p)
          \/ wm_is_file(p) \/ wm_read_file(p) \/ wm_update(p)
          \/ wm_write_file(p) \/ wm_rename(p)
          \/ clean_cache(p) \/ clean_list(p) \/ clean_is_file(p)
          \/ clean_read_file(p) \/ clean_remove(p) \/ finish(p)
    \/ tick

\* The next step of a call of install() or clean_cache() that has started
\* and has not returned or raised.
call_step(p) ==
    \/ cache_is_file(p) \/ clear_directory(p)
    \/ install_from_cache(p) \/ installer_method(p)
    \/ add_to_cache(p) \/ tar_write(p) \/ tar_rename(p)
    \/ wm_is_file(p) \/ wm_read_file(p) \/ wm_update(p)
    \/ wm_write_file(p) \/ wm_rename(p)
    \/ clean_list(p) \/ clean_is_file(p)
    \/ clean_read_file(p) \/ clean_remove(p)

\* The commands, and the methods a caller may call on their own.
NextApi ==
    \/ Next
    \/ \E p \in Procs : write_metadata(p) \/ install_from_cache_call(p)

\* Concurrent clean_cache() calls.
NextClean ==
    \E p \in Procs :
        \/ clean_cache(p) \/ clean_list(p) \/ clean_is_file(p)
        \/ clean_read_file(p) \/ clean_remove(p) \/ finish(p)

\* ---------------------------------------------------------- initial states
\* An entry as a completed store at time t leaves it.
StoredMetadata(t) ==
    File(Dumps(Updated(EmptyDict, t, t)))

\* The processes are idle; the cache directory holds the given files.
InitWith(limits, times, budgets, builds, keys, dirs, caches) ==
    /\ now \in times
    /\ cache_limit \in limits
    /\ buildable = builds
    /\ requests = keys
    /\ priors = dirs
    /\ budget = budgets
    /\ \E c \in caches :
          /\ archive = [f \in Fingerprints |->
                          IF c[f].stored THEN File(Pack(c[f].tree)) ELSE NoFile]
          /\ metadata = [f \in Fingerprints |->
                          IF c[f].stored /\ c[f].accessed > 0
                          THEN StoredMetadata(c[f].accessed)
                          ELSE IF c[f].stored /\ c[f].accessed < 0
                          THEN File(<<(<<"{", 0>>)>>) ELSE NoFile]
          /\ uses = [f \in Fingerprints |->
                          IF c[f].stored /\ c[f].accessed > 0 THEN 1 ELSE 0]
          /\ stored_tree = [f \in Fingerprints |-> c[f].tree]
          /\ \A f \in Fingerprints : c[f].accessed <= now
    /\ tmp_archive = [p \in Procs |-> NoFile]
    /\ tmp_metadata = [p \in Procs |-> NoFile]
    /\ op = [p \in Procs |-> "none"]
    /\ pc = [p \in Procs |-> "idle"]
    /\ key = [p \in Procs |-> SetMin(Fingerprints)]
    /\ read_from_cache = [p \in Procs |-> FALSE]
    /\ write_to_cache = [p \in Procs |-> FALSE]
    /\ overrides = [p \in Procs |-> EmptyDict]
    /\ node_modules = [p \in Procs |-> EmptyTree]
    /\ cache_metadata = [p \in Procs |-> EmptyDict]
    /\ scan = [p \in Procs |-> <<>>]
    /\ entries = [p \in Procs |-> <<>>]
    /\ to_remove = [p \in Procs |-> <<>>]
    /\ found = [p \in Procs |-> FALSE]
    /\ installer_runs = [p \in Procs |-> 0]
    /\ packs = [p \in Procs |-> 0]
    /\ touches = [p \in Procs |-> 0]
    /\ unpack_failed = [p \in Procs |-> FALSE]
    /\ evicted = [f \in Fingerprints |-> FALSE]

\* What the run found: the cache directory, the clock and the package.json
\* files as they were when it started.
AsFound ==
    given = [archive |-> archive, metadata |-> metadata, now |-> now,
             package_file |-> package_file]

\* The NpmAccel objects: their version strings, no dependencies read yet.
InitObjects(versions) ==
    /\ dependencies = [a \in Callers |-> <<>>]
    /\ nodejs_version \in [Accels -> versions]
    /\ installer_version \in [Accels -> versions]
    /\ cache_keys = [a \in Accels |-> <<>>]

\* Every caller has a package.json file that lists one dependency, which no
\* installer rewrites.
PlainProject ==
    /\ package_file =
          [c \in Callers |-> PackageFile(<<(<<(<<"a">>), (<<"1">>)>>)>>, <<>>)]
    /\ production = [c \in Callers |-> FALSE]
    /\ rewrites = {}
    /\ missing_package_file = [p \in Procs |-> FALSE]
\* The installer of the objects is not chosen and no command line is given.
NoSelection ==
    /\ programs = {}
    /\ reported = [name \in KnownInstallers |-> <<"1">>]
    /\ version_cached = [a \in Accels |-> TRUE]
    /\ installer_name = [a \in Accels |-> "unset"]
    /\ default_installer = [a \in Accels |-> "unset"]
    /\ assigned = [a \in Accels |-> "none"]
    /\ sets = [a \in Accels |-> 0]
    /\ value_error = [a \in Accels |-> FALSE]
    /\ method = [a \in Accels |-> "none"]
NoCommand ==
    /\ argv = [options |-> <<>>, arguments |-> <<>>]
    /\ main_pc = "returned"
    /\ program_opts = <<>>
    /\ context_opts = <<>>
    /\ action = "install"
    /\ cli_directory = "none"
    /\ context = FALSE
    /\ called = <<>>
    /\ exit_status = 0
\* The cache directory is not listed by name.
NoListing == listing = {} /\ yielded = {}

TreeU == [n \in {1} |-> "u"]
TreeV == [n \in {1} |-> "v"]
TreeOld == [n \in {2} |-> "v"]
Absent == [stored |-> FALSE, tree |-> EmptyTree, accessed |-> 0]
\* The entries a cache directory may hold for one fingerprint: none, or an
\* archive with a metadata file written at one of the times, with no
\* metadata file (0) or with one that is no JSON (-1).
EntryStates(trees, times) ==
    {Absent} \cup [stored : {TRUE}, tree : trees, accessed : times]

\* Two npm-accel commands run concurrently on one cache directory.
Init ==
    /\ InitWith({1, 2}, {1}, [p \in Procs |-> 1],
             [p \in Procs |-> IF p = "p1" THEN {TreeU} ELSE {TreeV}],
             {1, 2}, {EmptyTree},
             {c \in [Fingerprints -> EntryStates({TreeU}, {1})] : ~c[3].stored})
    /\ InitObjects({<<"1">>})
    /\ NoListing
    /\ PlainProject
    /\ NoSelection
    /\ NoCommand
    /\ failing = "none"
    /\ AsFound
Spec == Init /\ [][Next]_vars

\* One command runs on a cache directory found in any state.
InitOne ==
    /\ InitWith(0..MaxLimit, 1..MaxTime,
             [p \in Procs |-> IF p = "p1" THEN 1 ELSE 0],
             [p \in Procs |-> {TreeU, TreeV}],
             Fingerprints, {EmptyTree, TreeOld},
             [Fingerprints -> EntryStates({TreeU}, (0 - 1)..MaxTime)])
    /\ InitObjects({<<"1">>})
    /\ NoListing
    /\ PlainProject
    /\ NoSelection
    /\ NoCommand
    /\ failing = "none"
    /\ AsFound
SpecOne == InitOne /\ [][Next]_vars

\* Two commands run one after the other, starting with an empty cache.
InitSeq ==
    /\ InitWith({1, 2}, {1},
             [p \in Procs |-> IF p = "p1" THEN 2 ELSE 0],
             [p \in Procs |-> Trees],
             {1, 2}, Trees,
             {[f \in Fingerprints |-> Absent]})
    /\ InitObjects({<<"1">>})
    /\ NoListing
    /\ PlainProject
    /\ NoSelection
    /\ NoCommand
    /\ failing = "none"
    /\ AsFound
SpecSeq == InitSeq /\ [][Next]_vars

\* Two commands run concurrently on one cache directory; a call that has
\* started keeps taking steps (the interpreter runs on, and every external
\* command a step runs terminates).
InitLive ==
    /\ InitWith({1}, {MaxTime - 1}, [p \in Procs |-> 1],
             [p \in Procs |-> {TreeU}],
             {1}, {EmptyTree},
             {c \in [Fingerprints -> EntryStates({TreeU}, {1})] :
                 ~c[1].stored /\ ~c[2].stored /\ c[3].stored})
    /\ InitObjects({<<"1">>})
    /\ NoListing
    /\ PlainProject
    /\ NoSelection
    /\ NoCommand
    /\ failing = "none"
    /\ AsFound
SpecLive ==
    /\ InitLive
    /\ [][Next]_vars
    /\ \A p \in Procs : WF_vars(call_step(p))

\* One caller makes one call (install, clean_cache, write_metadata or
\* install_from_cache) on a cache directory found in any state; one of the
\* external commands may be failing.
InitApi ==
    /\ InitWith({1, 2}, 1..MaxTime,
                [p \in Procs |-> IF p = "p1" THEN 1 ELSE 0],
                [p \in Procs |-> {TreeV}],
                {1}, {EmptyTree, TreeOld},
                {c \in [Fingerprints -> EntryStates({TreeU}, (0 - 1)..MaxTime)] :
                    \A f \in Fingerprints \ {1} : c[f].accessed \in {0, 1}})
    /\ InitObjects({<<"1">>})
    /\ NoListing
    /\ PlainProject
    /\ NoSelection
    /\ NoCommand
    /\ failing \in {"none", "tar", "write_file", "rm"}
    /\ AsFound
SpecApi == InitApi /\ [][NextApi]_vars

\* Two clean_cache() calls run concurrently on a cache directory whose
\* metadata files, where they exist, are intact.
InitClean ==
    /\ InitWith({1, 2}, {MaxTime}, [p \in Procs |-> 1], [p \in Procs |-> {}],
                {}, {}, [Fingerprints -> EntryStates({TreeU}, 0..MaxTime)])
    /\ InitObjects({<<"1">>})
    /\ NoListing
    /\ PlainProject
    /\ NoSelection
    /\ NoCommand
    /\ failing = "none"
    /\ AsFound
SpecClean == InitClean /\ [][NextClean]_vars

\* One command runs in a project directory found in any state: without a
\* package.json file, or with one that lists dependencies, devDependencies,
\* both or neither; the installer may fail, and may rewrite package.json.
DepA == <<(<<(<<"a">>), (<<"1">>)>>)>>
DepB == <<(<<(<<"b">>), (<<"1">>)>>)>>
ProjectFiles ==
    {NoFile, File(<<>>), PackageFile(<<>>, <<>>), PackageFile(<<>>, DepB),
     PackageFile(DepA, <<>>), PackageFile(DepA, DepB)}
InitPkg ==
    /\ InitWith({1, 2}, {1},
                [p \in Procs |-> IF p = "p1" THEN 1 ELSE 0],
                [p \in Procs |-> {TreeV}],
                {1}, {TreeOld},
                {c \in [Fingerprints -> EntryStates({TreeU}, {0, 1})] :
                    c[3].accessed = 0})
    /\ InitObjects({<<"1">>})
    /\ NoListing
    /\ NoSelection
    /\ NoCommand
    /\ package_file \in
          {f \in [Callers -> ProjectFiles] :
              \A c \in Callers \ {"p1"} : f[c] = PackageFile(DepA, <<>>)}
    /\ production \in
          {f \in [Callers -> BOOLEAN] : \A c \in Callers \ {"p1"} : ~f[c]}
    /\ rewrites = {PackageFile(DepB, <<>>)}
    /\ missing_package_file = [p \in Procs |-> FALSE]
    /\ failing \in {"none", "installer"}
    /\ AsFound
SpecPkg == InitPkg /\ [][Next]_vars

\* The dictionaries a package.json file may hold under dependencies and
\* devDependencies: up to two packages, each with a version.
PackageDicts ==
    {<<>>}
    \cup {<<(<<n, v>>)>> : n \in PackageNames, v \in PackageVersions}
    \cup {d \in {<<(<<n, v>>), (<<m, w>>)>> :
                    n \in PackageNames, v \in PackageVersions,
                    m \in PackageNames, w \in PackageVersions} :
            d[1][1] # d[2][1]}
\* Two objects, one with production set and one without, read the same
\* package.json file and compute cache keys.
InitMode ==
    /\ InitWith({1}, {1}, [p \in Procs |-> 0], [p \in Procs |-> {}],
                {}, {}, {[f \in Fingerprints |-> Absent]})
    /\ InitObjects(VersionStrings)
    /\ NoListing
    /\ NoSelection
    /\ NoCommand
    /\ \E deps \in PackageDicts, dev_deps \in PackageDicts :
          package_file = [c \in Callers |-> PackageFile(deps, dev_deps)]
    /\ production = [c \in Callers |-> c = "x"]
    /\ rewrites = {}
    /\ missing_package_file = [p \in Procs |-> FALSE]
    /\ failing = "none"
    /\ AsFound
SpecMode == InitMode /\ [][NextMode]_vars

\* The installer of two NpmAccel objects is set and looked up, on a system
\* that has any of the installers.
InitInstaller ==
    /\ InitWith({1}, {1}, [p \in Procs |-> 0], [p \in Procs |-> {}],
                {}, {}, {[f \in Fingerprints |-> Absent]})
    /\ InitObjects({<<"1">>})
    /\ NoListing
    /\ PlainProject
    /\ NoCommand
    /\ programs \in SUBSET {"npm", "yarn", "pnpm"}
    /\ reported = [name \in KnownInstallers |-> <<"1">>]
    /\ version_cached = [a \in Accels |-> TRUE]
    /\ installer_name = [a \in Accels |-> "unset"]
    /\ default_installer = [a \in Accels |-> "unset"]
    /\ assigned = [a \in Accels |-> "none"]
    /\ sets = [a \in Accels |-> 0]
    /\ value_error = [a \in Accels |-> FALSE]
    /\ method = [a \in Accels |-> "none"]
    /\ failing = "none"
    /\ AsFound
SpecInstaller == InitInstaller /\ [][NextInstaller]_vars

\* Two NpmAccel objects that have extracted their dependencies and have not
\* read installer_version yet, on a system that has any of the installers;
\* yarn and pnpm may report a version of their own.
InitVersion ==
    /\ InitWith({1}, {1}, [p \in Procs |-> 0], [p \in Procs |-> {}],
                {}, {}, {[f \in Fingerprints |-> Absent]})
    /\ dependencies = [c \in Callers |-> IF c \in Accels THEN DepA ELSE <<>>]
    /\ nodejs_version = [a \in Accels |-> <<"1">>]
    /\ installer_version = [a \in Accels |-> <<>>]
    /\ cache_keys = [a \in Accels |-> <<>>]
    /\ NoListing
    /\ PlainProject
    /\ NoCommand
    /\ programs \in SUBSET {"npm", "yarn", "pnpm"}
    /\ reported \in {r \in [KnownInstallers -> VersionStrings] :
                        r["npm"] = <<"1">> /\ r["npm-cache"] = <<"1">>}
    /\ version_cached = [a \in Accels |-> FALSE]
    /\ installer_name = [a \in Accels |-> "unset"]
    /\ default_installer = [a \in Accels |-> "unset"]
    /\ assigned = [a \in Accels |-> "none"]
    /\ sets = [a \in Accels |-> 0]
    /\ value_error = [a \in Accels |-> FALSE]
    /\ method = [a \in Accels |-> "none"]
    /\ failing = "none"
    /\ AsFound
SpecVersion == InitVersion /\ [][NextVersion]_vars

\* The options and the positional arguments a command line may hold.
CommandOptions ==
    {<<"-u", "">>, <<"-n", "">>, <<"-b", "">>, <<"-r", "host">>, <<"-r", "">>,
     <<"-h", "">>, <<"--version", "">>, <<"-x", "">>}
CommandArguments == {"a", "b", ""}
\* npm-accel is started with any command line.
InitMain ==
    /\ InitWith({1}, {1}, [p \in Procs |-> 0], [p \in Procs |-> {}],
                {}, {}, {[f \in Fingerprints |-> Absent]})
    /\ InitObjects({<<"1">>})
    /\ NoListing
    /\ PlainProject
    /\ NoSelection
    /\ argv \in [options : UNION {[1..n -> CommandOptions] : n \in 0..MaxOpts},
                  arguments : UNION {[1..n -> CommandArguments] : n \in 0..MaxArgs}]
    /\ main_pc = "start"
    /\ program_opts = <<>>
    /\ context_opts = <<>>
    /\ action = "install"
    /\ cli_directory = "none"
    /\ context = FALSE
    /\ called = <<>>
    /\ exit_status = 0
    /\ failing = "none"
    /\ AsFound
SpecMain == InitMain /\ [][NextMain]_vars

\* A cache directory is filled with entries of any name and kind and listed
\* by find_archives.
InitList ==
    /\ InitWith({1}, {1}, [p \in Procs |-> 0], [p \in Procs |-> {}],
                {}, {}, {[f \in Fingerprints |-> Absent]})
    /\ InitObjects({<<"1">>})
    /\ failing = "none"
    /\ NoListing
    /\ PlainProject
    /\ NoSelection
    /\ NoCommand
    /\ AsFound
SpecList == InitList /\ [][NextList]_vars

\* Two NpmAccel objects compute cache keys; the cache is not used.
InitKey ==
    /\ InitWith({1}, {1}, [p \in Procs |-> 0], [p \in Procs |-> {}],
                {}, {}, {[f \in Fingerprints |-> Absent]})
    /\ InitObjects(VersionStrings)
    /\ NoListing
    /\ PlainProject
    /\ NoSelection
    /\ NoCommand
    /\ failing = "none"
    /\ AsFound
SpecKey == InitKey /\ [][NextKey]_vars

\* ================================================================ claims
AllKeys == {MetaKeys[i] : i \in 1..Len(MetaKeys)}
Record(f) == Loads(metadata[f].data)
AllFinished == \A p \in Procs : pc[p] = "idle" /\ budget[p] = 0

\* C1: whatever the interleaving of stores and metadata updates with
\* readers, a file under its final name in the cache directory is whole: an
\* archive is the complete archive of the tree one writer packed, a metadata
\* file is the complete JSON text of one record; an empty or truncated file
\* is never visible under the final name.
C1_FinalNamesHoldWholeFiles ==
    \A f \in Fingerprints :
        /\ archive[f].exists =>
              /\ IsCompleteArchive(archive[f].data)
              /\ archive[f].data = Pack(stored_tree[f])
        /\ metadata[f].exists =>
              /\ IsJson(metadata[f].data)
              /\ DOMAIN Record(f) = AllKeys
\* A reader is about to unpack an archive while another process has a
\* partly written archive for the same fingerprint.
C1_ReaderDuringStore ==
    \E p \in Procs : \E q \in Procs \ {p} :
        /\ key[p] = key[q]
        /\ tmp_archive[p].exists
        /\ ~IsCompleteArchive(tmp_archive[p].data)
        /\ pc[q] = "unpack"
        /\ archive[key[q]].exists

C9_EveryUseCounted ==
    \A f \in Fingerprints :
        (AllFinished /\ ~evicted[f] /\ metadata[f].exists) =>
            Get(Record(f), "cache-hits", 0) = uses[f]

\* C10 (as claimed): while the metadata file of an entry exists, a
\* date-created value it holds is never changed.
C10_DateCreatedKept ==
    [][\A f \in Fingerprints :
          (/\ metadata[f].exists
           /\ metadata'[f].exists
           /\ "date-created" \in DOMAIN Record(f))
          => /\ "date-created" \in DOMAIN Loads(metadata'[f].data)
             /\ Loads(metadata'[f].data)["date-created"] = Record(f)["date-created"]]_vars

\* The (last-accessed, fingerprint) pair an entry of the directory dir ranks
\* with: last-accessed 0 for an entry without readable metadata.
RankIn(dir, f) ==
    <<IF dir.metadata[f].exists /\ IsJson(dir.metadata[f].data)
      THEN Get(Loads(dir.metadata[f].data), "last-accessed", 0) ELSE 0, f>>
ArchivesIn(dir) == {f \in Fingerprints : dir.archive[f].exists}
\* The entries of dir that are not among its first max(0, N - limit) in
\* ascending order: those with fewer than limit entries ranked after them.
KeptOf(dir, limit) ==
    {f \in ArchivesIn(dir) :
        Cardinality({g \in ArchivesIn(dir) :
                        TupleLess(RankIn(dir, f), RankIn(dir, g))}) < limit}

\* C2 (as claimed): with cache_limit >= 1 and no concurrent activity,
\* clean_cache leaves exactly the min(N, L) entries that rank last in
\* ascending (last-accessed, fingerprint) order, an entry without readable
\* metadata ranking with last-accessed 0.
C2_CleanKeepsNewest ==
    \A p \in Procs :
        (op[p] = "clean_cache" /\ pc[p] \in {"done", "raised"} /\ cache_limit >= 1)
        => /\ find_archives = KeptOf(given, cache_limit)
           /\ Cardinality(find_archives) =
                 IF Cardinality(ArchivesIn(given)) < cache_limit
                 THEN Cardinality(ArchivesIn(given)) ELSE cache_limit

\* The miss path of install() has stored the tree and install() has returned.
StoredAndReturned(p) ==
    /\ op[p] = "install"
    /\ pc[p] = "done"
    /\ ~found[p]
    /\ write_to_cache[p]
    /\ packs[p] = 1
    /\ cache_limit >= 1
\* The other entries that rank after the entry the call has just stored.
RankedAfterStored(p) ==
    {g \in ArchivesIn(given) \ {key[p]} :
        TupleLess(<<cache_metadata[p]["last-accessed"], key[p]>>, RankIn(given, g))}

\* C3 (as claimed): after install() has returned from a miss with
\* write_to_cache and cache_limit >= 1, the archive of its cache key exists,
\* whatever else the cache holds.
C3_StoredArchiveExists ==
    \A p \in Procs : StoredAndReturned(p) => archive[key[p]].exists
\* C3 (amended): it exists provided fewer than cache_limit other entries
\* rank after it by (last-accessed, path); no other command is running.
C3_StoredArchiveExistsIfRankedLast ==
    \A p \in Procs :
        (StoredAndReturned(p) /\ Cardinality(RankedAfterStored(p)) < cache_limit)
        => archive[key[p]].exists
\* The call stored its archive, evicted an older entry and kept its own.
C3_StoredAndEvictedOlder ==
    \E p \in Procs :
        /\ StoredAndReturned(p)
        /\ archive[key[p]].exists
        /\ \E g \in Fingerprints \ {key[p]} : evicted[g]

\* C4: a call that finds its archive with read_from_cache never runs the
\* installer and never packs an archive; when it returns, node_modules holds
\* the tree of the archive, the archive is the one it found (unless the
\* final clean_cache removed it) and the metadata was written exactly once.
C4_HitUnpacksOnly ==
    \A p \in Procs :
        found[p] =>
            /\ installer_runs[p] = 0
            /\ packs[p] = 0
            /\ touches[p] <= 1
            /\ archive[key[p]].exists => archive[key[p]] = given.archive[key[p]]
            /\ pc[p] = "done" =>
                  /\ touches[p] = 1
                  /\ node_modules[p] = stored_tree[key[p]]
\* A call has returned from a cache hit.
C4_HitReturned ==
    \E p \in Procs :
        /\ found[p]
        /\ pc[p] = "done"
        /\ touches[p] = 1
        /\ node_modules[p] = TreeU

\* C5: once a call has unpacked the archive that add_to_cache made of a tree
\* T, its node_modules directory holds exactly the files and contents of T,
\* whatever it held before.
C5_RoundTrip ==
    \A p \in Procs :
        (found[p] /\ pc[p] \notin {"check", "hit_clear", "unpack", "raised"})
        => node_modules[p] = stored_tree[key[p]]
\* A tree of two files was stored by one call and unpacked by the next.
C5_StoredThenUnpacked ==
    \E p \in Procs :
        /\ found[p]
        /\ pc[p] = "wm_isfile"
        /\ uses[key[p]] = 1
        /\ DOMAIN node_modules[p] = FileNames

\* The set of (name, version) pairs of an object's dependencies.
Items(a) == {dependencies[a][i] : i \in 1..Len(dependencies[a])}

C7_DifferentInputsDifferentKeys ==
    \A a \in Accels : \A b \in Accels :
        (/\ cache_keys[a] # <<>>
         /\ cache_keys[b] # <<>>
         /\ \/ Items(a) # Items(b)
            \/ nodejs_version[a] # nodejs_version[b]
            \/ installer_version[a] # installer_version[b])
        => cache_keys[a][1] # cache_keys[b][1]

\* The record read_metadata would have returned for f as the run began.
GivenRecord(f) ==
    IF given.metadata[f].exists /\ IsJson(given.metadata[f].data)
    THEN Loads(given.metadata[f].data) ELSE EmptyDict

\* C11: a write_metadata(file, **overrides) call made on its own, with the
\* clock reading t throughout, leaves the record that is the current record
\* (or the empty one) merged with the overrides, with date-created set to t
\* only if the merge has none, last-accessed set to t whatever the merge
\* holds, and cache-hits one more than in the merge (0 if absent).
C11_WriteMetadataRecord ==
    \A p \in Procs :
        (op[p] = "write_metadata" /\ pc[p] = "done" /\ now = given.now)
        => LET merged == Merge(GivenRecord(key[p]), overrides[p])
           IN  /\ metadata[key[p]].exists
               /\ IsJson(metadata[key[p]].data)
               /\ DOMAIN Record(key[p]) = DOMAIN merged \cup AllKeys
               /\ Record(key[p])["date-created"] = Get(merged, "date-created", now)
               /\ Record(key[p])["last-accessed"] = now
               /\ Record(key[p])["cache-hits"] = Get(merged, "cache-hits", 0) + 1
\* The call has updated an existing record created earlier, with an override
\* for last-accessed and none for date-created.
C11_ExistingRecordUpdated ==
    \E p \in Procs :
        /\ op[p] = "write_metadata"
        /\ pc[p] = "done"
        /\ now = given.now
        /\ "date-created" \in DOMAIN GivenRecord(key[p])
        /\ GivenRecord(key[p])["date-created"] < now
        /\ "last-accessed" \in DOMAIN overrides[p]
        /\ "date-created" \notin DOMAIN overrides[p]

\* C12 (as claimed): read_metadata never fails, so with no failing command
\* and nothing running concurrently a call of write_metadata, install or
\* clean_cache raises only when tar -xf finds no archive to unpack: never
\* because a metadata file holds no JSON.
C12_ReadMetadataNeverRaises ==
    \A p \in Procs :
        (failing = "none" /\ pc[p] = "raised") => unpack_failed[p]

\* The fingerprints of the entries clean_cache has got the metadata of.
Scanned(p) == {entries[p][i][2] : i \in 1..Len(entries[p])}
\* The fingerprints clean_cache has still to visit.
ToScan(p) == {scan[p][i] : i \in 1..Len(scan[p])}
\* The entry a raising call was reading the metadata of.
EntryRead(p) == IF scan[p] # <<>> THEN Head(scan[p]) ELSE key[p]

\* C13: an archive without a metadata file is an entry like any other, with
\* nothing running concurrently: clean_cache visits every archive of the
\* directory and ranks one without metadata with last-accessed 0; install()
\* with read_from_cache finds it, and once the hit has written the metadata
\* the record holds cache-hits 1 and a date-created; and no call raises while
\* reading the metadata of an entry that has no metadata file.
C13_NoMetadataIsAnEntry ==
    \A p \in Procs :
        /\ pc[p] \in {"clean_isfile", "clean_read"}
              => find_archives \subseteq Scanned(p) \cup ToScan(p)
        /\ \A i \in 1..Len(entries[p]) :
              (/\ ~given.metadata[entries[p][i][2]].exists
               /\ ~(entries[p][i][2] = key[p] /\ touches[p] > 0))
              => entries[p][i][1] = 0
        /\ (/\ op[p] = "install"
            /\ read_from_cache[p]
            /\ given.archive[key[p]].exists
            /\ ~given.metadata[key[p]].exists
            /\ pc[p] # "check")
           => /\ found[p]
              /\ (touches[p] = 1 /\ ~evicted[key[p]])
                    => /\ metadata[key[p]].exists
                       /\ Record(key[p])["cache-hits"] = 1
                       /\ "date-created" \in DOMAIN Record(key[p])
        /\ pc[p] = "raised" => metadata[EntryRead(p)].exists
\* install() has returned from a hit on an archive that had no metadata
\* file, and its clean_cache has ranked another such archive with 0.
C13_HitWithoutMetadata ==
    \E p \in Procs :
        /\ found[p]
        /\ ~given.metadata[key[p]].exists
        /\ pc[p] = "done"
        /\ metadata[key[p]].exists
        /\ Record(key[p])["cache-hits"] = 1
        /\ \E i \in 1..Len(entries[p]) :
              /\ entries[p][i][1] = 0
              /\ ~given.metadata[entries[p][i][2]].exists

\* The call has raised in add_to_cache: after it started tar -cf and before
\* its write_metadata had put the metadata file in place.
StoreFailed(p) == pc[p] = "raised" /\ packs[p] = 1 /\ touches[p] = 0
\* No temporary file of p is left in the cache directory.
NoTemporaryFile(p) == ~tmp_archive[p].exists /\ ~tmp_metadata[p].exists

\* C14 (as claimed): when add_to_cache fails, in tar -cf or in
\* write_metadata, no temporary file remains and every archive and metadata
\* file of the cache directory is as it was before the call.
C14_FailedStoreLeavesNoTrace ==
    \A p \in Procs :
        StoreFailed(p)
        => /\ NoTemporaryFile(p)
           /\ archive = given.archive
           /\ metadata = given.metadata
\* C14 (amended): when add_to_cache fails no temporary file remains and the
\* metadata files and the archives of the other fingerprints are as before;
\* the archive of the fingerprint is as before when tar -cf failed, and is
\* the new archive, renamed into place, when write_metadata failed.
C14_FailedStoreKeepsNewArchive ==
    \A p \in Procs :
        StoreFailed(p)
        => /\ NoTemporaryFile(p)
           /\ metadata = given.metadata
           /\ \A f \in Fingerprints \ {key[p]} : archive[f] = given.archive[f]
           /\ archive[key[p]] = IF failing = "tar" THEN given.archive[key[p]]
                                ELSE File(Pack(node_modules[p]))
\* write_file failed in a store that has replaced an older archive.
C14_MetadataWriteFailed ==
    \E p \in Procs :
        /\ StoreFailed(p)
        /\ failing = "write_file"
        /\ given.archive[key[p]].exists
        /\ archive[key[p]] # given.archive[key[p]]

\* C15: a retrieval for a fingerprint without an archive makes no entry:
\* during and after install() on a miss with write_to_cache false, and after
\* an install_from_cache call in which tar -xf fails for want of the
\* archive, the fingerprint has neither an archive nor a metadata file.
C15_MissMakesNoEntry ==
    \A p \in Procs :
        /\ (/\ op[p] = "install"
            /\ ~write_to_cache[p]
            /\ ~given.archive[key[p]].exists)
           => /\ ~archive[key[p]].exists
              /\ ~metadata[key[p]].exists
              /\ NoTemporaryFile(p)
        /\ unpack_failed[p]
           => /\ ~archive[key[p]].exists
              /\ ~metadata[key[p]].exists
              /\ NoTemporaryFile(p)
              /\ touches[p] = 0
\* install_from_cache was called for a fingerprint without an archive and
\* has raised.
C15_RetrievalOfAbsentArchive ==
    \E p \in Procs :
        /\ op[p] = "install_from_cache"
        /\ unpack_failed[p]
        /\ pc[p] = "raised"
        /\ ~given.archive[key[p]].exists
        /\ node_modules[p] = EmptyTree

\* The entries a clean_cache call that has listed them all selects.
Batch(p) == ToRemove(entries[p], cache_limit)
BatchNames(p) == {Batch(p)[i][2] : i \in 1..Len(Batch(p))}

\* C16: a clean_cache call that has selected its entries never raises,
\* whatever a concurrent clean_cache call has removed in the meantime, and
\* when it returns the archive and the metadata file of every entry it
\* selected are gone.
C16_SecondRemovalIsNoOp ==
    \A p \in Procs :
        /\ pc[p] = "raised" => to_remove[p] = <<>>
        /\ pc[p] = "done"
              => \A f \in BatchNames(p) :
                    ~archive[f].exists /\ ~metadata[f].exists
\* Two concurrent clean_cache calls selected the same two entries and both
\* have returned.
C16_BothRemovedSameEntries ==
    \E p \in Procs : \E q \in Procs \ {p} :
        /\ pc[p] = "done"
        /\ pc[q] = "done"
        /\ Cardinality(BatchNames(p)) = 2
        /\ BatchNames(p) = BatchNames(q)

\* rm has failed in the loop over to_remove and clean_cache has raised.
RemovalFailed(p) == failing = "rm" /\ pc[p] = "raised" /\ to_remove[p] # <<>>

\* C17 (as claimed): a failing removal never ends the clean_cache pass.
C17_EvictionIsBestEffort ==
    \A p \in Procs : ~RemovalFailed(p)
\* C17 (amended): when rm fails for an entry clean_cache raises at once: that
\* entry and the entries after it in the batch stay in the cache, and a call
\* with entries to remove does not return.
C17_FailedRemovalEndsThePass ==
    \A p \in Procs :
        /\ RemovalFailed(p)
              => \A i \in 1..Len(to_remove[p]) : archive[to_remove[p][i][2]].exists
        /\ (failing = "rm" /\ pc[p] = "done") => BatchNames(p) = {}
\* rm failed with two entries to remove: neither was removed.
C17_TwoStaleEntriesLeft ==
    \E p \in Procs :
        /\ RemovalFailed(p)
        /\ Len(to_remove[p]) = 2
        /\ find_archives = ArchivesIn(given)

\* The call has stored its archive: add_to_cache is past the rename.
Renamed(p) ==
    /\ packs[p] = 1
    /\ pc[p] \notin {"tar_create", "tar_write", "tar_rename"}

\* C18: when two processes have stored archives for the same fingerprint
\* concurrently, the archive in place is, in full, the archive of the tree of
\* one of the two, the one whose rename came last; and neither call has
\* raised unless a clean_cache had removed the entry whose metadata it went
\* on to read.
C18_LastRenameWins ==
    \A p \in Procs : \A q \in Procs \ {p} :
        (Renamed(p) /\ Renamed(q) /\ key[p] = key[q])
        => /\ archive[key[p]].exists
                 => /\ archive[key[p]].data \in
                          {Pack(node_modules[p]), Pack(node_modules[q])}
                    /\ archive[key[p]].data = Pack(stored_tree[key[p]])
           /\ pc[p] = "raised" => evicted[EntryRead(p)]
\* Two processes stored different trees for one fingerprint, both have
\* returned, and the archive in place holds one of the trees.
C18_TwoStoresReturned ==
    \E p \in Procs : \E q \in Procs \ {p} :
        /\ Renamed(p) /\ Renamed(q)
        /\ key[p] = key[q]
        /\ pc[p] = "done" /\ pc[q] = "done"
        /\ node_modules[p] # node_modules[q]
        /\ archive[key[p]].exists
        /\ archive[key[p]].data = Pack(node_modules[q])

\* C19 (as claimed): every path find_archives has yielded is that of a file
\* whose name is 40 hexadecimal digits followed by .tar (in either case);
\* a directory is never yielded.
C19_OnlyArchiveFilesYielded ==
    \A e \in listing :
        join(cache_directory, e.name) \in yielded
        => e.kind = "file" /\ pattern_match(e.name)

\* The files clean_cache has removed when the call is over: those of the
\* entries it selected when it returned, none when it raised on the way.
Removed(p) == IF pc[p] = "done" THEN BatchNames(p) ELSE {}
\* The names get_cache_file gives to archives: a key and .tar
CacheFileNames ==
    {n \in EntryNames :
        /\ Len(n) = DigestLength + 4
        /\ \A i \in 1..DigestLength : IsHexDigit(n[i])
        /\ EndsWithTar(n, Len(n))}

\* C20: when a clean_cache call that ran alone is over, the archive and the
\* metadata file of every entry it selected are gone, every other archive,
\* metadata file and temporary file is as it was before the call, and with
\* at most cache_limit entries in the cache nothing was selected; the
\* metadata file removed with an archive <key>.tar is <key>.json.
C20_CleanRemovesOnlyTheBatch ==
    /\ \A p \in Procs :
          (op[p] = "clean_cache" /\ pc[p] \in {"done", "raised"})
          => /\ \A f \in Removed(p) :
                   ~archive[f].exists /\ ~metadata[f].exists
             /\ \A f \in Fingerprints \ Removed(p) :
                   /\ archive[f] = given.archive[f]
                   /\ metadata[f] = given.metadata[f]
             /\ NoTemporaryFile(p)
             /\ Cardinality(ArchivesIn(given)) <= cache_limit
                   => Removed(p) = {}
    /\ \A n \in CacheFileNames :
          /\ pattern_match(n)
          /\ get_metadata_file(join(cache_directory, n))
                = join(cache_directory,
                       SubSeq(n, 1, DigestLength) \o <<".", "j", "s", "o", "n">>)
\* clean_cache has returned after removing an entry that had a metadata file
\* and keeping another entry that has one.
C20_RemovedOneKeptOne ==
    \E p \in Procs :
        /\ op[p] = "clean_cache"
        /\ pc[p] = "done"
        /\ \E f \in Removed(p) : given.metadata[f].exists
        /\ \E f \in Fingerprints \ Removed(p) :
              archive[f].exists /\ metadata[f].exists

\* install() has found a package.json file that yields no dependencies.
NothingToInstall(p) ==
    /\ op[p] = "install"
    /\ package_file[p].exists
    /\ relevant_dependencies(package_file[p].data, production[p]) = <<>>
\* The call of p has not used the cache directory, node_modules or an
\* installer: all is as it was when the call started.
Untouched(p) ==
    /\ ~found[p]
    /\ ~unpack_failed[p]
    /\ installer_runs[p] = 0
    /\ packs[p] = 0
    /\ touches[p] = 0
    /\ node_modules[p] \in priors
    /\ node_modules[p] # EmptyTree
    /\ archive = given.archive
    /\ metadata = given.metadata
    /\ NoTemporaryFile(p)
    /\ scan[p] = <<>> /\ entries[p] = <<>> /\ to_remove[p] = <<>>

\* C21: install() on a package.json file from which no dependencies are
\* extracted returns at once with the empty mapping: the cache is not looked
\* at, node_modules is not cleared, no installer runs, nothing is stored and
\* nothing is removed from the cache.
C21_NothingToInstallNothingDone ==
    \A p \in Procs :
        NothingToInstall(p)
        => /\ pc[p] = "done"
           /\ dependencies[p] = <<>>
           /\ Untouched(p)
\* install() has returned with no dependencies, devDependencies being left
\* out of a production install, although the cache holds an archive.
C21_ProductionWithoutDependencies ==
    \E p \in Procs :
        /\ NothingToInstall(p)
        /\ pc[p] = "done"
        /\ production[p]
        /\ ObjectGet(package_file[p].data, "devDependencies", <<>>) # <<>>
        /\ \E f \in requests : archive[f].exists

\* C25: install() in a directory without a package.json file raises
\* MissingPackageFileError, and only then: node_modules is not cleared, no
\* installer runs, and the cache is not read, written or cleaned.
C25_MissingPackageFileRaisesFirst ==
    \A p \in Procs :
        /\ (op[p] = "install" /\ ~package_file[p].exists)
              => /\ pc[p] = "raised"
                 /\ missing_package_file[p]
                 /\ Untouched(p)
        /\ missing_package_file[p] => ~package_file[p].exists
\* install() has raised MissingPackageFileError in a directory whose
\* node_modules has files, with an archive in the cache.
C25_RaisedWithoutPackageFile ==
    \E p \in Procs :
        /\ op[p] = "install"
        /\ pc[p] = "raised"
        /\ missing_package_file[p]
        /\ \E f \in Fingerprints : archive[f].exists

\* The package names a dictionary lists.
NamesOf(d) == {d[i][1] : i \in 1..Len(d)}
\* devDependencies lists a package that dependencies does not list.
AddsDevelopmentPackage(contents) ==
    NamesOf(ObjectGet(contents, "devDependencies", <<>>))
        \ NamesOf(ObjectGet(contents, "dependencies", <<>>)) # {}

\* C22: for one package.json file whose devDependencies list a package that
\* its dependencies do not list, no cache key computed with production set
\* equals a cache key computed without it.
C22_ModesHaveDifferentKeys ==
    \A a \in Accels : \A b \in Accels :
        ( /\ production[a]
          /\ ~production[b]
          /\ package_file[a] = package_file[b]
          /\ AddsDevelopmentPackage(package_file[a].data) )
        => \A i \in 1..Len(cache_keys[a]) : \A j \in 1..Len(cache_keys[b]) :
              cache_keys[a][i] # cache_keys[b][j]
\* A production object and a development object with the same Node.js and
\* installer versions have both computed a key for a package.json file with
\* a dependency and a development dependency on another package.
C22_BothModesComputedKeys ==
    \E a \in Accels : \E b \in Accels :
        /\ production[a]
        /\ ~production[b]
        /\ AddsDevelopmentPackage(package_file[a].data)
        /\ nodejs_version[a] = nodejs_version[b]
        /\ installer_version[a] = installer_version[b]
        /\ cache_keys[a] # <<>>
        /\ cache_keys[b] # <<>>

\* install() runs with the options of --update.
Updating(p) ==
    op[p] = "install" /\ ~read_from_cache[p] /\ write_to_cache[p]

\* C23: with read_from_cache unset and write_to_cache set, install() never
\* unpacks an archive, even when the cache holds one for its key: when the
\* call is over the installer has run once and the tree it built was packed
\* and renamed to the archive of the key, which holds that tree until a
\* clean_cache removes it.
C23_UpdateAlwaysRebuilds ==
    \A p \in Procs :
        Updating(p)
        => /\ ~found[p]
           /\ ~unpack_failed[p]
           /\ pc[p] \notin {"hit_clear", "unpack"}
           /\ packs[p] > 0 => installer_runs[p] = 1
           /\ pc[p] \in {"done", "raised"}
                 => installer_runs[p] = 1 /\ Renamed(p)
           /\ (Renamed(p) /\ ~evicted[key[p]])
                 => archive[key[p]] = File(Pack(node_modules[p]))
\* An --update call has returned; the archive its key had before held
\* another tree than the one that was built and is in the archive now.
C23_EntryRefreshed ==
    \E p \in Procs :
        /\ Updating(p)
        /\ pc[p] = "done"
        /\ given.archive[key[p]].exists
        /\ archive[key[p]] = File(Pack(node_modules[p]))
        /\ archive[key[p]] # given.archive[key[p]]

\* C24 (as claimed): with write_to_cache unset install() creates or replaces
\* no file of the cache directory: it packs no archive, writes no metadata
\* file, and every archive and metadata file there is is the one the call
\* found.
C24_NoCacheNeverWrites ==
    \A p \in Procs :
        (op[p] = "install" /\ ~write_to_cache[p])
        => /\ packs[p] = 0
           /\ touches[p] = 0
           /\ NoTemporaryFile(p)
           /\ \A f \in Fingerprints :
                 /\ archive[f].exists => archive[f] = given.archive[f]
                 /\ metadata[f].exists => metadata[f] = given.metadata[f]

\* The installer that install() ran has failed.
InstallerFailed(p) ==
    /\ op[p] = "install"
    /\ failing = "installer"
    /\ installer_runs[p] > 0

\* C29: install() packs an archive only after the installer has run, once
\* and without failing, in that call, on a node_modules directory that was
\* cleared before; the cache is cleaned after the store; and when the
\* installer fails install() raises with every archive and metadata file as
\* the call found them, no temporary file and no entry removed.
C29_StoreOnlyAfterInstaller ==
    \A p \in Procs :
        op[p] = "install"
        => /\ (packs[p] > 0 \/ pc[p] = "tar_create" \/ tmp_archive[p].exists)
                 => /\ installer_runs[p] = 1
                    /\ failing # "installer"
                    /\ ~found[p]
           /\ pc[p] = "installer"
                 => node_modules[p] = EmptyTree /\ installer_runs[p] = 0
           /\ (pc[p] \in {"clean_list", "clean_isfile", "clean_read", "clean_rm"}
                 /\ ~found[p] /\ write_to_cache[p])
                 => packs[p] = 1 /\ touches[p] = 1
           /\ InstallerFailed(p)
                 => /\ pc[p] = "raised"
                    /\ packs[p] = 0
                    /\ touches[p] = 0
                    /\ archive = given.archive
                    /\ metadata = given.metadata
                    /\ NoTemporaryFile(p)
                    /\ scan[p] = <<>> /\ entries[p] = <<>> /\ to_remove[p] = <<>>
\* The installer failed in a call that was to store its result, leaving
\* files in node_modules.
C29_InstallerFailedBeforeStore ==
    \E p \in Procs :
        /\ InstallerFailed(p)
        /\ pc[p] = "raised"
        /\ write_to_cache[p]
        /\ node_modules[p] # EmptyTree

\* C30 (as claimed): once the installer that install() runs has ended, by
\* returning or by raising, package.json holds what it held before.
C30_PackageFileRestored ==
    \A p \in Procs :
        (op[p] = "install" /\ installer_runs[p] > 0)
        => package_file[p] = given.package_file[p]

\* The step assigns a value to installer_name of a.
Assigns(a) == sets'[a] > sets[a]
\* installer_name of a holds no unsupported name and installer_method has
\* returned the method of a supported installer, if it was read.
SupportedInstaller(a) ==
    /\ installer_name[a] = "unset" \/ IsKnownInstaller(installer_name[a])
    /\ method[a] # "ValueError"

C27_UnavailableInstallerFallsBack ==
    [][ \A a \in Accels :
            (Assigns(a) /\ IsKnownInstaller(assigned'[a]))
            => /\ ~value_error'[a]
               /\ installer_name'[a] =
                     IF find_program(assigned'[a]) THEN assigned'[a]
                     ELSE IF find_program("yarn") THEN "yarn" ELSE "npm"
      ]_vars
\* pnpm was assigned on a system without pnpm and with yarn: yarn is
\* selected.
C27_FellBackToYarn ==
    \E a \in Accels :
        /\ assigned[a] = "pnpm"
        /\ ~find_program("pnpm")
        /\ find_program("yarn")
        /\ installer_name[a] = "yarn"
        /\ ~value_error[a]

\* The options of the command line hold the option.
HasOption(option) ==
    \E i \in 1..Len(argv.options) : argv.options[i][1] = option
\* --remote-host is given, and the host name given last.
RemoteHost ==
    LET given_hosts == {i \in 1..Len(argv.options) : argv.options[i][1] = "-r"}
    IN  argv.options[CHOOSE i \in given_hosts : \A j \in given_hosts : j <= i][2]
\* More than one positional argument, or --remote-host without a directory.
BadPositionalInput ==
    \/ Len(argv.arguments) > 1
    \/ HasOption("-r") /\ argv.arguments = <<>>
\* main() has acted on the command line.
Parsed == main_pc # "start"
\* main() has exited with a non-zero status before creating an execution
\* context or calling a method.
Rejected ==
    /\ main_pc = "exited"
    /\ exit_status # 0
    /\ ~context
    /\ called = <<>>

C31_InstallLeavesAtMostLimit ==
    \A p \in Procs :
        (op[p] = "install" /\ pc[p] = "done" /\ dependencies[p] # <<>>
            /\ cache_limit >= 1)
        => Cardinality(find_archives) <= cache_limit
\* An install() call has stored a new archive in a cache directory that
\* already held cache_limit archives and has returned after clean_cache
\* removed an older one.
C31_StoredThenEvicted ==
    \E p \in Procs :
        /\ op[p] = "install"
        /\ pc[p] = "done"
        /\ dependencies[p] # <<>>
        /\ cache_limit >= 1
        /\ packs[p] = 1
        /\ ~given.archive[key[p]].exists
        /\ Cardinality(ArchivesIn(given)) = cache_limit
        /\ \E g \in Fingerprints \ {key[p]} : evicted[g]
        /\ Cardinality(find_archives) = cache_limit

\* C32 (as claimed): cache_limit is the maximum number of archives preserved
\* for every value from 0 up: when a clean_cache call that ran alone has
\* returned, the cache directory holds at most cache_limit archives.
C32_CleanLeavesAtMostLimit ==
    \A p \in Procs :
        (op[p] = "clean_cache" /\ pc[p] = "done")
        => Cardinality(find_archives) <= cache_limit

\* A call of p is running: it has started and has not returned or raised.
Running(p) == pc[p] \notin {"idle", "done", "raised"}
\* No running call waits: its next step can be taken whatever the other
\* calls are doing.
NoWaiting == \A p \in Procs : Running(p) => ENABLED call_step(p)
\* C33: concurrent install() and clean_cache calls on one cache directory
\* never wait on each other: in every reachable state every running call
\* can take its next step, and every call that has started eventually
\* returns or raises, given that each step (and the external command it
\* runs) terminates.
C33_NoWaitingAlwaysFinishes ==
    /\ []NoWaiting
    /\ \A p \in Procs : Running(p) ~> (pc[p] \in {"done", "raised"})
\* An install() call has stored an archive and returned while a clean_cache
\* call of another process is in the middle of removing entries.
C33_FinishedWhileOtherRuns ==
    \E p \in Procs : \E q \in Procs \ {p} :
        /\ op[p] = "install"
        /\ pc[p] = "done"
        /\ packs[p] = 1
        /\ op[q] = "clean_cache"
        /\ pc[q] = "clean_rm"

\* The key of the dependencies and the nodejs_version of an object with the
\* given installer version.
KeyWith(a, version) ==
    hexdigest(sha1_update(sha1_update(sha1_update(<<>>,
        repr(sorted_items(dependencies[a]))), nodejs_version[a]), version))
\* The version an object has cached is the one that the installer it has
\* selected reports.
CachedVersionIsCurrent ==
    \A a \in Accels :
        version_cached[a] => installer_version[a] = reported[InstallerName(a)]
\* C34: after any assignments to installer_name (accepted, replaced by the
\* default installer, or rejected with ValueError) a cached installer_version
\* is the version reported by the installer that installer_name then names,
\* and every key get_cache_key computes is made with that version, never with
\* the version of an installer selected before.
C34_KeyUsesCurrentInstallerVersion ==
    /\ []CachedVersionIsCurrent
    /\ [][\A a \in Accels :
            cache_keys'[a] # cache_keys[a]
            => cache_keys'[a][Len(cache_keys'[a])]
                  = KeyWith(a, reported[InstallerName(a)])]_vars
\* An object computed a key with the default installer, was switched to pnpm,
\* which reports another version, and computed a second, different key.
C34_SwitchedThenNewKey ==
    \E a \in Accels :
        /\ Len(cache_keys[a]) = 2
        /\ cache_keys[a][1] # cache_keys[a][2]
        /\ sets[a] = 1
        /\ assigned[a] = "pnpm"
        /\ installer_name[a] = "pnpm"
        /\ default_installer[a] # "unset"
        /\ cache_keys[a][2] = KeyWith(a, reported["pnpm"])

====
